---- MODULE Spec2Model ----
(***************************************************************************)
(* The shared room state engine of the study-room application: the         *)
(* Pomodoro timer of a room (studybuddy/models.py Room.get_timer_state and *)
(* the timer views), and the private-room access control (set_privacy,     *)
(* join_private_room, room_detail, get_messages).                          *)
(*                                                                         *)
(* Time is counted in ticks of 1/TicksPerSec second, so that the           *)
(* truncation int(timedelta.total_seconds()) is a real conversion.         *)
(* A nullable column is an option: {} is NULL and {v} is the value v.      *)
(***************************************************************************)
EXTENDS Integers, Sequences, FiniteSets, TLC

VARIABLES
    now,        \* the server clock, timezone.now(), in ticks
    rooms,      \* the Room table: room id -> row
    grants,     \* the sessions' access_room_<id> keys: set of <<session, room id>>
    msgs,       \* the Message table, in insertion order: sequence of rows
    resp,       \* the response of the last completed request
    hist,       \* history: per room, the duration and the clock at the last effective start
    req,        \* requests in flight (interleaved execution): worker -> frame
    batch,      \* history of the current pair of interleaved requests
    presence,   \* the RoomPresence table: <<room id, user>> -> the last_seen of its rows
    keys        \* history: the code each grant was obtained with (kept where switched on)

vars == <<now, rooms, grants, msgs, resp, hist, req, batch, presence, keys>>

----------------------------------------------------------------------------
(* Bounds of the model *)

\* clock resolution: ticks per second
TicksPerSec == 2
\* the clock takes the values mark, mark + 1 tick, ..., mark + MaxFrac ticks
MaxFrac == 1
\* at most this many messages are stored
MaxMsgs == 1
\* rooms created in a run that starts without rooms
MaxRooms == 2

(* Program constants *)

\* Room.timer_duration default and the length of a work session, in seconds
WorkDuration == 1500
\* the length of a break session, in seconds
BreakDuration == 300

(* The inputs *)

Sessions == {"s1", "s2"}
\* the authenticated user of a session (login_required)
SessionUser(s) == IF s = "s1" THEN "u1" ELSE "u2"
\* user.username
Username(u) == IF u = "u1" THEN <<"u", "1">> ELSE <<"u", "2">>
RoomIds == {1, 2}
\* rooms whose timer is exercised
TimerRooms == {1}
\* whole seconds at which requests arrive
SecondMarks == {0, 50, 100, 150, 300, 1500, 1800, 3300}
TimePoints == {m * TicksPerSec + f : m \in SecondMarks, f \in 0..MaxFrac}

None == {}
Some(v) == {v}
IsNone(o) == o = {}
TheValue(o) == CHOOSE v \in o : TRUE

----------------------------------------------------------------------------
(* Strings are sequences of one-character strings *)

\* str.upper() on one character
UpperChar(c) ==
    IF c = "a" THEN "A" ELSE IF c = "b" THEN "B" ELSE IF c = "c" THEN "C" ELSE c

\* str.upper()
Upper(str) == [i \in 1..Len(str) |-> UpperChar(str[i])]

\* str.lower() on one character
LowerChar(c) ==
    IF c = "A" THEN "a" ELSE IF c = "B" THEN "b" ELSE IF c = "U" THEN "u" ELSE c

\* str.lower()
Lower(str) == [i \in 1..Len(str) |-> LowerChar(str[i])]

\* sub in str
Contains(sub, str) ==
    \E i \in 0..(Len(str) - Len(sub)) : SubSeq(str, i + 1, i + Len(sub)) = sub

IsSpace(c) == c = " "

RECURSIVE LStrip(_)
LStrip(str) ==
    IF str # <<>> /\ IsSpace(Head(str)) THEN LStrip(Tail(str)) ELSE str

RECURSIVE RStrip(_)
RStrip(str) ==
    IF str # <<>> /\ IsSpace(str[Len(str)])
    THEN RStrip(SubSeq(str, 1, Len(str) - 1))
    ELSE str

\* str.strip()
Strip(str) == LStrip(RStrip(str))

\* code_length of generate_private_code
CodeLength == 6
MaxCodeLength == 8

\* the code made of CodeLength times the character c
Repeat(c) == [i \in 1..CodeLength |-> c]

\* string.ascii_uppercase + string.digits without "0", "O", "I" and "1"
Characters ==
    {"A", "B", "C", "D", "E", "F", "G", "H", "J", "K", "L", "M", "N", "P", "Q",
     "R", "S", "T", "U", "V", "W", "X", "Y", "Z",
     "2", "3", "4", "5", "6", "7", "8", "9"}

\* codes the loop of generate_private_code may draw (a sample of the
\* 32^6 it draws from)
DrawnCodes == {Repeat("A"), Repeat("B")}

\* values secrets.token_urlsafe(6).upper()[:8] may take (a sample): eight
\* characters of the upper-cased URL-safe base64 alphabet
FallbackCodes == {<<"A", "0", "-", "O", "1", "_", "I", "Z">>}

\* what a client may type as a room code
TypedCodes ==
    {<<>>, <<" ">>, Repeat("A"), Repeat("B"), Repeat("C"),
     <<" ">> \o Repeat("a") \o <<" ">>} \cup FallbackCodes

\* what a client may type as a message
TypedContents == {<<>>, <<" ">>, <<"h", "i">>}

----------------------------------------------------------------------------
(* Room.get_timer_state and the arithmetic of the timer views *)

\* faulty variant: the elapsed time rounded up to the next whole second
IntSecondsRoundUp(ticks) == (ticks + TicksPerSec - 1) \div TicksPerSec

\* int(x) of Python: truncation toward zero of a number of ticks to seconds
IntSeconds(ticks) ==
    IF ticks >= 0 THEN ticks \div TicksPerSec ELSE -((-ticks) \div TicksPerSec)

Max(a, b) == IF a >= b THEN a ELSE b

\* elapsed = int((timezone.now() - self.timer_started_at).total_seconds())
Elapsed(room, t) == IntSeconds(t - TheValue(room.timer_started_at))

\* "break" if self.timer_mode == "work" else "work"
FlipMode(mode) == IF mode = "work" THEN "break" ELSE "work"

\* 300 if self.timer_mode == "break" else 1500
ModeDuration(mode) == IF mode = "break" THEN BreakDuration ELSE WorkDuration

Snapshot(room, time_left) ==
    [is_running |-> room.timer_is_running,
     time_left  |-> time_left,
     mode       |-> room.timer_mode,
     duration   |-> room.timer_duration]

\* faulty variant: the expiry stops the timer and reloads the duration of the mode
\* that has just ended, without switching modes
ExpireRoomKeepMode(room) ==
    [room EXCEPT !.timer_is_running = FALSE,
                 !.timer_duration = ModeDuration(room.timer_mode)]

\* The expiry transition of get_timer_state: the assignments made to self
\* before self.save()
ExpireRoom(room) ==
    [room EXCEPT !.timer_is_running = FALSE,
                 !.timer_mode = FlipMode(room.timer_mode),
                 !.timer_duration = ModeDuration(FlipMode(room.timer_mode))]

\* faulty variant: a timer that is not running reports the full length of its mode
\* instead of the stored remaining time
GetTimerStateFullLength(room, t) ==
    IF ~room.timer_is_running
    THEN [obj |-> room, saved |-> FALSE,
          state |-> Snapshot(room, ModeDuration(room.timer_mode))]
    ELSE LET time_left == Max(0, room.timer_duration - Elapsed(room, t))
         IN  IF time_left = 0
             THEN LET r2 == ExpireRoom(room)
                  IN  [obj |-> r2, saved |-> TRUE,
                       state |-> Snapshot(r2, r2.timer_duration)]
             ELSE [obj |-> room, saved |-> FALSE, state |-> Snapshot(room, time_left)]

\* Room.get_timer_state() on the instance `room` at clock t:
\*   obj   the instance afterwards,
\*   saved whether self.save() was called,
\*   state the dictionary returned
GetTimerState(room, t) ==
    IF ~room.timer_is_running
    THEN [obj |-> room, saved |-> FALSE, state |-> Snapshot(room, room.timer_duration)]
    ELSE LET time_left == Max(0, room.timer_duration - Elapsed(room, t))
         IN  IF time_left = 0
             THEN LET r2 == ExpireRoom(room)
                  IN  [obj |-> r2, saved |-> TRUE,
                       state |-> Snapshot(r2, r2.timer_duration)]
             ELSE [obj |-> room, saved |-> FALSE, state |-> Snapshot(room, time_left)]

\* faulty variant: timer_start restarts a timer that is already running
StartRoomRestart(room, t) ==
    [room EXCEPT !.timer_is_running = TRUE, !.timer_started_at = Some(t)]

\* timer_start: the assignments made when the timer is not running
StartRoom(room, t) ==
    IF ~room.timer_is_running
    THEN [room EXCEPT !.timer_is_running = TRUE, !.timer_started_at = Some(t)]
    ELSE room

\* faulty variant: timer_pause on a timer that is not running reloads the
\* full length of the mode
PauseRoomReload(room, t) ==
    IF room.timer_is_running
    THEN [room EXCEPT !.timer_duration = Max(0, room.timer_duration - Elapsed(room, t)),
                      !.timer_is_running = FALSE,
                      !.timer_started_at = None]
    ELSE [room EXCEPT !.timer_duration = ModeDuration(room.timer_mode)]

\* faulty variant: timer_pause stops the timer without banking the remaining time
PauseRoomNoBank(room, t) ==
    IF room.timer_is_running
    THEN [room EXCEPT !.timer_is_running = FALSE, !.timer_started_at = None]
    ELSE room

\* faulty variant: timer_pause banks the remaining time without the floor of zero
PauseRoomNoFloor(room, t) ==
    IF room.timer_is_running
    THEN [room EXCEPT !.timer_duration = room.timer_duration - Elapsed(room, t),
                      !.timer_is_running = FALSE,
                      !.timer_started_at = None]
    ELSE room

\* timer_pause: the assignments made when the timer is running
PauseRoom(room, t) ==
    IF room.timer_is_running
    THEN [room EXCEPT !.timer_duration = Max(0, room.timer_duration - Elapsed(room, t)),
                      !.timer_is_running = FALSE,
                      !.timer_started_at = None]
    ELSE room

\* faulty variant: timer_reset reloads the duration of the current mode and keeps
\* the mode
ResetRoomKeepMode(room) ==
    [room EXCEPT !.timer_is_running = FALSE,
                 !.timer_started_at = None,
                 !.timer_duration = ModeDuration(room.timer_mode)]

\* timer_reset: the assignments made unconditionally
ResetRoom(room) ==
    [room EXCEPT !.timer_is_running = FALSE,
                 !.timer_started_at = None,
                 !.timer_mode = "work",
                 !.timer_duration = WorkDuration]

\* faulty variant: the creator check is missing
NotCreatorUnchecked(room, u) == FALSE

\* room.created_by != request.user
NotCreator(room, u) == room.created_by # u

----------------------------------------------------------------------------
(* Responses *)

NoBody == [kind |-> "none"]
TimerBody(state) == [kind |-> "timer", state |-> state]

Response(op, s, r, status, body) ==
    [op |-> op, session |-> s, user |-> SessionUser(s), room |-> r,
     status |-> status, body |-> body]

Forbidden(op, s, r) == Response(op, s, r, 403, NoBody)

IdleFrame == [pc |-> "idle"]
NoBatch == [active |-> FALSE]
\* no RoomPresence row
NoPresence == [k \in RoomIds \X {"u1", "u2"} |-> <<>>]
\* the history of grants, switched off
NoKeys == [on |-> FALSE]

----------------------------------------------------------------------------
(* Initial state: the rows as Room.objects.create(name, created_by) leaves  *)
(* them (the field defaults of the Room model).                            *)

\* faulty variant: every room is given to the first user
NewRoomOfFirstUser(u, name) ==
    [name             |-> name,
     created_by       |-> "u1",
     is_private       |-> FALSE,
     password         |-> None,
     timer_started_at |-> None,
     timer_duration   |-> WorkDuration,
     timer_is_running |-> FALSE,
     timer_mode       |-> "work"]

NewRoom(u, name) ==
    [name             |-> name,
     created_by       |-> u,
     is_private       |-> FALSE,
     password         |-> None,
     timer_started_at |-> None,
     timer_duration   |-> WorkDuration,
     timer_is_running |-> FALSE,
     timer_mode       |-> "work"]

Init ==
    /\ now = 0
    /\ rooms = [r \in RoomIds |-> IF r = 1 THEN NewRoom("u1", <<"A", "b">>)
                                            ELSE NewRoom("u2", <<"b", "1">>)]
    /\ grants = {}
    /\ msgs = <<>>
    /\ resp = Response("none", "s1", 1, 0, NoBody)
    /\ hist = [r \in RoomIds |-> [duration |-> WorkDuration, at |-> 0]]
    /\ req = [w \in {1, 2} |-> IdleFrame]
    /\ batch = NoBatch
    /\ presence = NoPresence
    /\ keys = NoKeys

\* the same state, with the history of grants switched on
InitKeyed ==
    /\ now = 0
    /\ rooms = [r \in RoomIds |-> IF r = 1 THEN NewRoom("u1", <<"A", "b">>)
                                            ELSE NewRoom("u2", <<"b", "1">>)]
    /\ grants = {}
    /\ msgs = <<>>
    /\ resp = Response("none", "s1", 1, 0, NoBody)
    /\ hist = [r \in RoomIds |-> [duration |-> WorkDuration, at |-> 0]]
    /\ req = [w \in {1, 2} |-> IdleFrame]
    /\ batch = NoBatch
    /\ presence = NoPresence
    /\ keys = [on |-> TRUE, of |-> {}]

----------------------------------------------------------------------------
(* The clock *)

Advance ==
    /\ \E t \in TimePoints : t > now /\ now' = t
    /\ UNCHANGED <<rooms, grants, msgs, resp, hist, presence, keys, req, batch>>

----------------------------------------------------------------------------
(* The timer views, each request handled to completion *)

\* the row written back and the response of a timer control view whose
\* in-memory assignments turn `room` into `changed`
TimerReply(op, s, r, changed) ==
    LET g == GetTimerState(changed, now)
    IN  /\ rooms' = [rooms EXCEPT ![r] = g.obj]
        /\ resp' = Response(op, s, r, 200, TimerBody(g.state))

TimerStart(s, r) ==
    LET room == rooms[r]
    IN  /\ IF NotCreator(room, SessionUser(s))
           THEN /\ resp' = Forbidden("timer_start", s, r)
                /\ UNCHANGED <<rooms, hist>>
           ELSE /\ TimerReply("timer_start", s, r, StartRoom(room, now))
                /\ hist' = IF ~room.timer_is_running
                           THEN [hist EXCEPT ![r] = [duration |-> room.timer_duration,
                                                     at |-> now]]
                           ELSE hist
        /\ UNCHANGED <<now, grants, msgs, req, batch, presence, keys>>

TimerPause(s, r) ==
    LET room == rooms[r]
    IN  /\ IF NotCreator(room, SessionUser(s))
           THEN /\ resp' = Forbidden("timer_pause", s, r)
                /\ UNCHANGED rooms
           ELSE TimerReply("timer_pause", s, r, PauseRoom(room, now))
        /\ UNCHANGED <<now, grants, msgs, hist, presence, keys, req, batch>>

TimerReset(s, r) ==
    LET room == rooms[r]
    IN  /\ IF NotCreator(room, SessionUser(s))
           THEN /\ resp' = Forbidden("timer_reset", s, r)
                /\ UNCHANGED rooms
           ELSE TimerReply("timer_reset", s, r, ResetRoom(room))
        /\ UNCHANGED <<now, grants, msgs, hist, presence, keys, req, batch>>

TimerState(s, r) ==
    /\ TimerReply("timer_state", s, r, rooms[r])
    /\ UNCHANGED <<now, grants, msgs, hist, presence, keys, req, batch>>

TimerRequest ==
    \E s \in Sessions, r \in TimerRooms :
        \/ TimerStart(s, r)
        \/ TimerPause(s, r)
        \/ TimerReset(s, r)
        \/ TimerState(s, r)

----------------------------------------------------------------------------
(* Private rooms: code generation, privacy, session grants, room content *)

\* Room.objects.filter(is_private=True, password=code).exclude(pk=self.pk).exists()
CodeInUse(r, code) ==
    \E o \in DOMAIN rooms \ {r} : rooms[o].is_private /\ rooms[o].password = Some(code)

\* The values Room.generate_private_code() may return for room r: a drawn
\* code no other private room uses, or, when every one of the max_attempts
\* draws can hit a code in use, the fallback value.
GeneratePrivateCode(r) ==
    {c \in DrawnCodes : ~CodeInUse(r, c)}
        \cup (IF \E c \in DrawnCodes : CodeInUse(r, c) THEN FallbackCodes ELSE {})

\* request.session.get(f"access_room_{room.id}")
HasSessionAccess(s, r) == <<s, r>> \in grants

\* the condition under which room_detail serves the room:
\* not (room.is_private and not user_is_creator and not has_session_access)
CanView(s, r) ==
    \/ ~rooms[r].is_private
    \/ rooms[r].created_by = SessionUser(s)
    \/ HasSessionAccess(s, r)

\* the orders in which a queryset may yield the rows of S
Orderings(S) ==
    {seq \in [1..Cardinality(S) -> S] :
        \A i, j \in 1..Cardinality(S) : i # j => seq[i] # seq[j]}

\* faulty variant: the rows come back newest first
RoomMessagesNewestFirst(r) ==
    LET rows == {msgs[i] : i \in {j \in 1..Len(msgs) : msgs[j].room = r}}
    IN  {seq \in Orderings(rows) :
            \A i, j \in 1..Len(seq) : i < j => seq[i].id > seq[j].id}

\* room.messages.order_by("timestamp"): the rows of room r by ascending
\* timestamp; the order among rows of equal timestamp is the database's
RoomMessages(r) ==
    LET rows == {msgs[i] : i \in {j \in 1..Len(msgs) : msgs[j].room = r}}
    IN  {seq \in Orderings(rows) :
            \A i, j \in 1..Len(seq) : i < j => seq[i].timestamp <= seq[j].timestamp}

\* the rows of get_messages' JSON list, for the caller u
MessagesData(rows, u) ==
    [i \in 1..Len(rows) |->
        [id        |-> rows[i].id,
         user      |-> rows[i].user,
         content   |-> rows[i].content,
         timestamp |-> rows[i].timestamp,
         is_own    |-> rows[i].user = u]]

\* the id an AutoField gives the next row of a table
RECURSIVE NextId(_)
NextId(table) ==
    IF table = <<>> THEN 1
    ELSE Max(table[Len(table)].id + 1, NextId(SubSeq(table, 1, Len(table) - 1)))

\* Message.objects.create(room=room, user=request.user, content=content),
\* timestamp being auto_now_add
CreateMessage(r, u, content) ==
    Append(msgs, [id |-> NextId(msgs), room |-> r, user |-> u, content |-> content,
                  timestamp |-> now])

Redirect(to) == [kind |-> "redirect", to |-> to]

\* faulty variant: making a room public leaves its code in place
MakePublicKeepCode(room) == [room EXCEPT !.is_private = FALSE]

\* room.is_private = True; room.password = code
MakePrivate(room, code) == [room EXCEPT !.is_private = TRUE, !.password = Some(code)]

\* room.is_private = False; room.password = None
MakePublic(room) == [room EXCEPT !.is_private = FALSE, !.password = None]

\* the JSON of a refused and of a served set_privacy
PrivacyDenied == [kind |-> "privacy", success |-> FALSE]
PrivacyBody(room) ==
    [kind |-> "privacy", success |-> TRUE, is_private |-> room.is_private,
     code |-> IF room.is_private THEN room.password ELSE None]

\* history: session s has obtained its grant for room r with the code the
\* room has now
KeyObtained(s, r) ==
    IF keys.on
    THEN [keys EXCEPT !.of = {k \in @ : ~(k.session = s /\ k.room = r)}
                               \cup {[session |-> s, room |-> r,
                                      code |-> rooms[r].password, lapsed |-> FALSE]}]
    ELSE keys

\* history: room r has been made public; the grants obtained before are
\* from before the toggle
KeysLapsed(r) ==
    IF keys.on
    THEN [keys EXCEPT !.of = {[k EXCEPT !.lapsed = @ \/ k.room = r] : k \in @}]
    ELSE keys

\* faulty variant: the key is set in every session
GrantAccessAll(s, r) == grants \cup {<<x, r>> : x \in Sessions}

\* request.session[f"access_room_{room.id}"] = True
GrantAccess(s, r) == grants \cup {<<s, r>>}

SetPrivacy(s, r, make_private) ==
    LET room == rooms[r]
    IN  /\ IF NotCreator(room, SessionUser(s))
           THEN /\ resp' = Response("set_privacy", s, r, 403, PrivacyDenied)
                /\ UNCHANGED <<rooms, keys>>
           ELSE IF make_private
           THEN /\ \E code \in GeneratePrivateCode(r) :
                     /\ rooms' = [rooms EXCEPT ![r] = MakePrivate(room, code)]
                     /\ resp' = Response("set_privacy", s, r, 200,
                                         PrivacyBody(MakePrivate(room, code)))
                /\ UNCHANGED keys
           ELSE /\ rooms' = [rooms EXCEPT ![r] = MakePublic(room)]
                /\ resp' = Response("set_privacy", s, r, 200,
                                    PrivacyBody(MakePublic(room)))
                /\ keys' = KeysLapsed(r)
        /\ UNCHANGED <<now, grants, msgs, hist, presence, req, batch>>

JoinPrivateRoom(s, typed) ==
    LET code == Upper(Strip(typed))
        found == {r \in DOMAIN rooms :
                    rooms[r].is_private /\ rooms[r].password = Some(code)}
    IN  /\ IF code = <<>>
           THEN /\ resp' = Response("join_private_room", s, 0, 302, Redirect("rooms"))
                /\ UNCHANGED <<grants, keys>>
           ELSE IF found = {}
           THEN \* Room.DoesNotExist
                /\ resp' = Response("join_private_room", s, 0, 302, Redirect("rooms"))
                /\ UNCHANGED <<grants, keys>>
           ELSE IF Cardinality(found) > 1
           THEN \* Room.MultipleObjectsReturned is not caught
                /\ resp' = Response("join_private_room", s, 0, 500, NoBody)
                /\ UNCHANGED <<grants, keys>>
           ELSE LET r == CHOOSE x \in found : TRUE
                IN  /\ grants' = GrantAccess(s, r)
                    /\ keys' = KeyObtained(s, r)
                    /\ resp' = Response("join_private_room", s, r, 302,
                                        Redirect("room_detail"))
        /\ UNCHANGED <<now, rooms, msgs, hist, presence, req, batch>>

\* a POST of the code prompt with the code typed
PromptForm(typed) == [method |-> "POST", field |-> "room_password", value |-> typed]

\* the requests room_detail distinguishes: a GET, a POST of the code prompt,
\* a POST of the message form
DetailForms(codes, contents) ==
    {[method |-> "GET", field |-> "none", value |-> <<>>]}
        \cup {PromptForm(v) : v \in codes}
        \cup {[method |-> "POST", field |-> "content", value |-> v] :
                v \in contents}

\* faulty variant: the prompt accepts an empty code
PromptAcceptsEmpty(room, submitted) ==
    submitted = (IF IsNone(room.password) THEN <<>> ELSE TheValue(room.password))

\* submitted_password and submitted_password == (room.password or "")
PromptAccepts(room, submitted) ==
    /\ submitted # <<>>
    /\ submitted = (IF IsNone(room.password) THEN <<>> ELSE TheValue(room.password))

\* room_detail, with at most cap Message rows ever created
RoomDetailUpTo(cap, s, r, form) ==
    LET room == rooms[r]
        user_is_creator == room.created_by = SessionUser(s)
    IN  /\ r \in DOMAIN rooms
        /\ IF room.is_private /\ ~user_is_creator /\ ~HasSessionAccess(s, r)
           THEN IF form.field = "room_password" /\ PromptAccepts(room, form.value)
                THEN /\ grants' = GrantAccess(s, r)
                     /\ keys' = KeyObtained(s, r)
                     /\ resp' = Response("room_detail", s, r, 302,
                                         Redirect("room_detail"))
                     /\ UNCHANGED msgs
                ELSE /\ resp' = Response("room_detail", s, r, 200,
                                         [kind |-> "prompt",
                                          error |-> form.field = "room_password"])
                     /\ UNCHANGED <<grants, msgs, keys>>
           ELSE IF form.field = "content"
           THEN /\ IF form.value # <<>>
                   THEN /\ NextId(msgs) <= cap
                        /\ msgs' = CreateMessage(r, SessionUser(s), form.value)
                   ELSE UNCHANGED msgs
                /\ resp' = Response("room_detail", s, r, 302, Redirect("room_detail"))
                /\ UNCHANGED <<grants, keys>>
           ELSE /\ \E rows \in RoomMessages(r) :
                     resp' = Response("room_detail", s, r, 200,
                                      [kind |-> "detail",
                                       messages |-> MessagesData(rows, SessionUser(s))])
                /\ UNCHANGED <<grants, msgs, keys>>
        /\ UNCHANGED <<now, rooms, hist, presence, req, batch>>

RoomDetail(s, r, form) == RoomDetailUpTo(MaxMsgs, s, r, form)

GetMessages(s, r) ==
    /\ r \in DOMAIN rooms
    /\ \E rows \in RoomMessages(r) :
         resp' = Response("get_messages", s, r, 200,
                          [kind |-> "messages",
                           messages |-> MessagesData(rows, SessionUser(s))])
    /\ UNCHANGED <<now, rooms, grants, msgs, hist, presence, keys, req, batch>>

\* send_message, with at most cap Message rows ever created
SendMessageUpTo(cap, s, r, typed) ==
    LET content == Strip(typed)
    IN  /\ r \in DOMAIN rooms
        /\ IF content = <<>>
           THEN /\ resp' = Response("send_message", s, r, 400, NoBody)
                /\ UNCHANGED msgs
           ELSE /\ NextId(msgs) <= cap
                /\ msgs' = CreateMessage(r, SessionUser(s), content)
                /\ resp' = Response("send_message", s, r, 200,
                                    [kind |-> "sent",
                                     message |-> [id |-> NextId(msgs),
                                                  user |-> SessionUser(s),
                                                  content |-> content,
                                                  timestamp |-> now,
                                                  is_own |-> TRUE]])
        /\ UNCHANGED <<now, rooms, grants, hist, presence, keys, req, batch>>

SendMessage(s, r, typed) == SendMessageUpTo(MaxMsgs, s, r, typed)

AccessRequest ==
    \E s \in Sessions :
        \/ \E r \in RoomIds, p \in BOOLEAN : SetPrivacy(s, r, p)
        \/ \E typed \in TypedCodes : JoinPrivateRoom(s, typed)
        \/ \E r \in RoomIds, form \in DetailForms(TypedCodes, {<<>>, <<"h", "i">>}) :
             RoomDetail(s, r, form)
        \/ \E r \in RoomIds : GetMessages(s, r)
        \/ \E r \in RoomIds, typed \in TypedContents : SendMessage(s, r, typed)

----------------------------------------------------------------------------
(* The timer views, two requests interleaved.  Each view reads the row      *)
(* (get_object_or_404), assigns to the instance in memory, writes the whole *)
(* row back (Model.save() without update_fields) and then calls             *)
(* get_timer_state on the instance, which may assign and save again.  No    *)
(* view takes a transaction or a row lock, so the steps of two requests     *)
(* interleave freely.                                                       *)

Workers == {1, 2}
TimerOps == {"timer_start", "timer_pause", "timer_reset", "timer_state"}
\* whole seconds at which the steps of interleaved requests happen
ConcMarks == {0, 100, 1500}
ConcTimes == {m * TicksPerSec : m \in ConcMarks}

AdvanceConc ==
    /\ \E t \in ConcTimes : t > now /\ now' = t
    /\ UNCHANGED <<rooms, grants, msgs, resp, hist, presence, keys, req, batch>>

\* room = get_object_or_404(Room, id=room_id): the request reads the row
Load(w, op, s, r) ==
    /\ req[w].pc = "idle"
    /\ req' = [req EXCEPT ![w] = [pc |-> "loaded", op |-> op, session |-> s,
                                  room |-> r, obj |-> rooms[r]]]
    /\ batch' = IF batch.active
                THEN [batch EXCEPT !.ops[w] = [op |-> op, session |-> s]]
                ELSE [active |-> TRUE, room |-> r, base |-> rooms[r], t0 |-> now,
                      ops |-> [x \in Workers |-> [op |-> IF x = w THEN op ELSE "none",
                                                  session |-> s]]]
    /\ batch.active => batch.room = r
    /\ UNCHANGED <<now, rooms, grants, msgs, resp, hist, presence, keys>>

\* the view's own part up to its save(): the creator check and the
\* assignments to the instance, with timezone.now() read here
Act(w) ==
    LET f == req[w]
    IN  /\ f.pc = "loaded"
        /\ IF f.op # "timer_state" /\ NotCreator(f.obj, SessionUser(f.session))
           THEN /\ req' = [req EXCEPT ![w] = [pc |-> "done"]]
                /\ resp' = Forbidden(f.op, f.session, f.room)
           ELSE /\ resp' = resp
                /\ req' = [req EXCEPT ![w] =
                     IF f.op = "timer_start" /\ ~f.obj.timer_is_running
                     THEN [f EXCEPT !.pc = "save", !.obj = StartRoom(f.obj, now)]
                     ELSE IF f.op = "timer_pause" /\ f.obj.timer_is_running
                     THEN [f EXCEPT !.pc = "save", !.obj = PauseRoom(f.obj, now)]
                     ELSE IF f.op = "timer_reset"
                     THEN [f EXCEPT !.pc = "save", !.obj = ResetRoom(f.obj)]
                     ELSE [f EXCEPT !.pc = "state"]]
        /\ UNCHANGED <<now, rooms, grants, msgs, hist, presence, keys, batch>>

\* room.save() in the view: every column of the row is written
Save(w) ==
    LET f == req[w]
    IN  /\ f.pc = "save"
        /\ rooms' = [rooms EXCEPT ![f.room] = f.obj]
        /\ req' = [req EXCEPT ![w].pc = "state"]
        /\ UNCHANGED <<now, grants, msgs, resp, hist, presence, keys, batch>>

\* room.get_timer_state() on the instance: answers, unless it has to save
State(w) ==
    LET f == req[w]
        g == GetTimerState(f.obj, now)
    IN  /\ f.pc = "state"
        /\ IF g.saved
           THEN /\ req' = [req EXCEPT ![w] = [f EXCEPT !.pc = "save_state", !.obj = g.obj]]
                /\ resp' = resp
           ELSE /\ req' = [req EXCEPT ![w] = [pc |-> "done"]]
                /\ resp' = Response(f.op, f.session, f.room, 200, TimerBody(g.state))
        /\ UNCHANGED <<now, rooms, grants, msgs, hist, presence, keys, batch>>

\* faulty variant: the expiry is written as a toggle of the stored row
SaveStateToggle(w) ==
    LET f == req[w]
    IN  /\ f.pc = "save_state"
        /\ rooms' = [rooms EXCEPT ![f.room] = ExpireRoom(@)]
        /\ req' = [req EXCEPT ![w] = [pc |-> "done"]]
        /\ resp' = Response(f.op, f.session, f.room, 200,
                            TimerBody(Snapshot(f.obj, f.obj.timer_duration)))
        /\ UNCHANGED <<now, grants, msgs, hist, presence, keys, batch>>

\* self.save() in get_timer_state, and the response
SaveState(w) ==
    LET f == req[w]
    IN  /\ f.pc = "save_state"
        /\ rooms' = [rooms EXCEPT ![f.room] = f.obj]
        /\ req' = [req EXCEPT ![w] = [pc |-> "done"]]
        /\ resp' = Response(f.op, f.session, f.room, 200,
                            TimerBody(Snapshot(f.obj, f.obj.timer_duration)))
        /\ UNCHANGED <<now, grants, msgs, hist, presence, keys, batch>>

BothDone == \A w \in Workers : req[w].pc = "done"

\* both responses are out: the workers take the next pair of requests
NextPair ==
    /\ BothDone
    /\ req' = [w \in Workers |-> IdleFrame]
    /\ batch' = NoBatch
    /\ UNCHANGED <<now, rooms, grants, msgs, resp, hist, presence, keys>>

ConcRequest ==
    \E w \in Workers :
        \/ \E op \in TimerOps, s \in Sessions, r \in TimerRooms : Load(w, op, s, r)
        \/ Act(w)
        \/ Save(w)
        \/ State(w)
        \/ SaveState(w)

\* the row the timer view `op`, called by session s, leaves when it runs
\* alone, to completion, reading the clock at t1 in the view and at t2 in
\* get_timer_state
Alone(op, s, room, t1, t2) ==
    IF op # "timer_state" /\ NotCreator(room, SessionUser(s)) THEN room
    ELSE IF op = "timer_start" THEN GetTimerState(StartRoom(room, t1), t2).obj
    ELSE IF op = "timer_pause" THEN GetTimerState(PauseRoom(room, t1), t2).obj
    ELSE IF op = "timer_reset" THEN GetTimerState(ResetRoom(room), t2).obj
    ELSE GetTimerState(room, t2).obj

----------------------------------------------------------------------------
(* Room creation and set_privacy, two requests interleaved.  set_privacy    *)
(* reads the row, then inside transaction.atomic() asks                     *)
(* generate_private_code for a code (a query over the other rows), assigns  *)
(* flag and code to the instance and writes the row with one save().  The   *)
(* transaction takes no lock before the save, so the query of one request   *)
(* and the save of another interleave.                                      *)

\* what a client may type as a room name
TypedNames == {<<>>, <<"A", "b">>}

InitPrivacy ==
    /\ now = 0
    /\ rooms = <<>>
    /\ grants = {}
    /\ msgs = <<>>
    /\ resp = Response("none", "s1", 0, 0, NoBody)
    /\ hist = [r \in RoomIds |-> [duration |-> WorkDuration, at |-> 0]]
    /\ req = [w \in {1, 2} |-> IdleFrame]
    /\ batch = NoBatch
    /\ presence = NoPresence
    /\ keys = NoKeys

\* POST to the rooms page: Room.objects.create(name, description, created_by)
\* when a name was sent; the new row takes the next id; at most cap rooms
\* are created
CreateRoomUpTo(cap, s, name) ==
    /\ IF name # <<>>
       THEN /\ Len(rooms) < cap
            /\ rooms' = Append(rooms, NewRoom(SessionUser(s), name))
       ELSE UNCHANGED rooms
    /\ resp' = Response("rooms", s, 0, 302, Redirect("rooms"))
    /\ UNCHANGED <<now, grants, msgs, hist, presence, keys, req, batch>>

CreateRoom(s, name) == CreateRoomUpTo(MaxRooms, s, name)

\* room = get_object_or_404(Room, id=room_id) and the creator check, taken
\* by the first idle worker.  A request to make the room public assigns to
\* the instance without reading anything else and is left with its save.
PrivacyLoad(w, s, r, make_private) ==
    /\ req[w].pc = "idle"
    /\ \A v \in Workers : v < w => req[v].pc # "idle"
    /\ r \in DOMAIN rooms
    /\ IF NotCreator(rooms[r], SessionUser(s))
       THEN /\ resp' = Response("set_privacy", s, r, 403, PrivacyDenied)
            /\ UNCHANGED req
       ELSE /\ req' = [req EXCEPT ![w] =
                         [pc |-> IF make_private THEN "atomic" ELSE "commit",
                          op |-> "set_privacy", session |-> s, room |-> r,
                          obj |-> IF make_private THEN rooms[r]
                                  ELSE MakePublic(rooms[r])]]
            /\ UNCHANGED resp
    /\ UNCHANGED <<now, rooms, grants, msgs, hist, presence, keys, batch>>

\* inside transaction.atomic(), making the room private: the code is
\* generated against the rows as they are now, and flag and code are
\* assigned to the instance
PrivacyAssign(w) ==
    LET f == req[w]
    IN  /\ f.pc = "atomic"
        /\ \E code \in GeneratePrivateCode(f.room) :
             req' = [req EXCEPT ![w] = [f EXCEPT !.pc = "commit",
                                                 !.obj = MakePrivate(f.obj, code)]]
        /\ UNCHANGED <<now, rooms, grants, msgs, resp, hist, presence, keys, batch>>

\* room.save(), room.refresh_from_db(), the end of the transaction and the
\* response
PrivacyCommit(w) ==
    LET f == req[w]
    IN  /\ f.pc = "commit"
        /\ rooms' = [rooms EXCEPT ![f.room] = f.obj]
        /\ resp' = Response("set_privacy", f.session, f.room, 200, PrivacyBody(f.obj))
        /\ req' = [req EXCEPT ![w] = IdleFrame]
        /\ UNCHANGED <<now, grants, msgs, hist, presence, keys, batch>>

\* the sessions that create rooms here; the other session is the non-owner
\* of every room
Creators == {"s1"}

CreateRequest ==
    \E s \in Creators, name \in TypedNames : CreateRoom(s, name)

PrivacyRequest ==
    \E w \in Workers :
        \/ \E s \in Sessions, r \in 1..MaxRooms, p \in BOOLEAN : PrivacyLoad(w, s, r, p)
        \/ PrivacyAssign(w)
        \/ PrivacyCommit(w)

----------------------------------------------------------------------------
(* Codes and grants, with a row edited through the admin site *)

\* the Room change form of the admin site (RoomAdmin, "Privacy Settings")
\* saved with is_private ticked and password left blank, which a nullable
\* CharField stores as NULL
AdminMakePrivateNoCode(r) ==
    /\ rooms' = [rooms EXCEPT ![r].is_private = TRUE, ![r].password = None]
    /\ resp' = [op |-> "admin_change", session |-> "admin", user |-> "admin",
                room |-> r, status |-> 302, body |-> Redirect("admin")]
    /\ UNCHANGED <<now, grants, msgs, hist, presence, keys, req, batch>>

AdminRequest == \E r \in RoomIds : AdminMakePrivateNoCode(r)

GrantRequest ==
    \E s \in Sessions :
        \/ \E r \in RoomIds, p \in BOOLEAN : SetPrivacy(s, r, p)
        \/ \E typed \in TypedCodes : JoinPrivateRoom(s, typed)
        \/ \E r \in RoomIds, form \in DetailForms(TypedCodes, {}) :
             RoomDetail(s, r, form)

----------------------------------------------------------------------------
(* The room lists: the rooms page, get_rooms and search_rooms *)

\* what a client may type as a search query
TypedQueries ==
    {<<>>, <<" ">>, <<"a", "B">>, <<"U", "1">>, <<" ", "1", " ">>, <<"z">>}

\* order_by("-created_at"): newest first, ids being given in creation order
NewestFirst(S) ==
    CHOOSE seq \in Orderings(S) : \A i, j \in 1..Len(seq) : i < j => seq[i] > seq[j]

\* Room.objects.filter(Q(is_private=False) | Q(created_by=request.user))
BaseRooms(s) ==
    {r \in DOMAIN rooms :
        ~rooms[r].is_private \/ rooms[r].created_by = SessionUser(s)}

\* the private rooms for which the session holds access_room_<id>
SessionRooms(s) ==
    {r \in DOMAIN rooms : rooms[r].is_private /\ HasSessionAccess(s, r)}

\* faulty variant: the two lists are joined without removing repeats
MergeKeepAll(seq) == seq

\* list({room.id: room for room in ...}.values()): one entry per id, at the
\* place of its first occurrence
RECURSIVE MergeDedupe(_)
MergeDedupe(seq) ==
    IF seq = <<>> THEN <<>>
    ELSE LET front == MergeDedupe(SubSeq(seq, 1, Len(seq) - 1))
             last == seq[Len(seq)]
         IN  IF \E i \in 1..Len(front) : front[i] = last
             THEN front
             ELSE Append(front, last)

\* the rows of the list as they are serialized for the caller u
RoomsData(ids, u) ==
    [i \in 1..Len(ids) |->
        [id         |-> ids[i],
         name       |-> rooms[ids[i]].name,
         created_by |-> rooms[ids[i]].created_by,
         is_creator |-> rooms[ids[i]].created_by = u,
         is_private |-> rooms[ids[i]].is_private]]

RoomsBody(ids, u) == [kind |-> "rooms", rooms |-> RoomsData(ids, u)]

\* GET of the rooms page
RoomsPage(s) ==
    /\ \E extra \in Orderings(SessionRooms(s)) :
         resp' = Response("rooms", s, 0, 200,
                          RoomsBody(MergeDedupe(NewestFirst(BaseRooms(s)) \o extra),
                                    SessionUser(s)))
    /\ UNCHANGED <<now, rooms, grants, msgs, hist, presence, keys, req, batch>>

GetRooms(s) ==
    /\ \E extra \in Orderings(SessionRooms(s)) :
         resp' = Response("get_rooms", s, 0, 200,
                          RoomsBody(MergeDedupe(NewestFirst(BaseRooms(s)) \o extra),
                                    SessionUser(s)))
    /\ UNCHANGED <<now, rooms, grants, msgs, hist, presence, keys, req, batch>>

\* query.lower() in r.name.lower() or query.lower() in r.created_by.username.lower()
SearchFilter(query, room) ==
    \/ Contains(Lower(query), Lower(room.name))
    \/ Contains(Lower(query), Lower(Username(room.created_by)))

SearchRooms(s, typed) ==
    LET query == Strip(typed)
    IN  /\ \E base \in Orderings(BaseRooms(s)), extra \in Orderings(SessionRooms(s)) :
             LET visible_rooms == MergeDedupe(base \o extra)
                 found == IF query # <<>>
                          THEN SelectSeq(visible_rooms,
                                         LAMBDA r : SearchFilter(query, rooms[r]))
                          ELSE visible_rooms
             IN  resp' = Response("search_rooms", s, 0, 200,
                                  RoomsBody(found, SessionUser(s)))
        /\ UNCHANGED <<now, rooms, grants, msgs, hist, presence, keys, req, batch>>

ListRequest ==
    \E s \in Sessions :
        \/ RoomsPage(s)
        \/ GetRooms(s)
        \/ \E typed \in TypedQueries : SearchRooms(s, typed)

\* the rooms page used by every session: rooms created and listed
CreatedNames == TypedNames \cup {<<"b", "1">>}

RoomsRequest ==
    \E s \in Sessions :
        \/ \E name \in CreatedNames : CreateRoom(s, name)
        \/ RoomsPage(s)
        \/ GetRooms(s)

\* the requests that change what a session may see
VisibilityRequest ==
    \E s \in Sessions :
        \/ \E r \in RoomIds, p \in BOOLEAN : SetPrivacy(s, r, p)
        \/ \E typed \in TypedCodes : JoinPrivateRoom(s, typed)

\* the room whose privacy is toggled where the history of grants is kept
ToggledRooms == {1}

KeyedRequest ==
    \E s \in Sessions :
        \/ \E r \in ToggledRooms, p \in BOOLEAN : SetPrivacy(s, r, p)
        \/ \E typed \in DrawnCodes : JoinPrivateRoom(s, typed)
        \/ \E r \in ToggledRooms, form \in DetailForms(DrawnCodes, {}) :
             RoomDetail(s, r, form)

----------------------------------------------------------------------------
(* Presence: the RoomPresence table and the room_presence view *)

\* the window of room_presence, in seconds
PresenceThreshold == 30
\* whole seconds at which heartbeats arrive
PresenceMarks == {0, 10, 30, 40}
PresenceTimes == {m * TicksPerSec + f : m \in PresenceMarks, f \in 0..MaxFrac}
\* the readings of timezone.now() a request can make after one at t
LaterReads(t) ==
    {x \in t..(t + MaxFrac) : /\ x \div TicksPerSec = t \div TicksPerSec
                              /\ x % TicksPerSec <= MaxFrac}

PresenceUsers == {"u1", "u2"}
\* the rows of a room, each named <<user, position>>
RoomRows(table, r) ==
    UNION {{<<u, i>> : i \in DOMAIN table[<<r, u>>]} : u \in PresenceUsers}

LastSeen(table, r, k) == table[<<r, k[1]>>][k[2]]

\* a filter that leaves out the row whose last_seen is the cutoff itself
ActiveRowsAfterCutoff(table, r, t, threshold_seconds) ==
    LET cutoff_time == t - threshold_seconds * TicksPerSec
    IN  {k \in RoomRows(table, r) : LastSeen(table, r, k) > cutoff_time}

\* filter(room=room, last_seen__gte=cutoff_time), the clock read as t
ActiveRows(table, r, t, threshold_seconds) ==
    LET cutoff_time == t - threshold_seconds * TicksPerSec
    IN  {k \in RoomRows(table, r) : LastSeen(table, r, k) >= cutoff_time}

\* RoomPresence.get_active_users
GetActiveUsers(table, r, t, threshold_seconds) ==
    Cardinality(ActiveRows(table, r, t, threshold_seconds))

\* last_seen has auto_now: pre_save replaces the value assigned from the
\* defaults by the clock at the time of the save
SaveStamp(defaults, t) == t

\* INSERT of a row
InsertPresence(table, r, u, t) == [table EXCEPT ![<<r, u>>] = Append(@, t)]
\* UPDATE of the row that get() returned
StampPresence(table, r, u, t) == [table EXCEPT ![<<r, u>>][1] = t]

\* a get_or_create in place of the update_or_create: a row that exists
\* is left as it is
UpdatePresenceKeep(table, r, u, t) ==
    IF table[<<r, u>>] = <<>> THEN InsertPresence(table, r, u, SaveStamp(t, t))
                              ELSE table

\* RoomPresence.update_presence, run alone: update_or_create
UpdatePresence(table, r, u, t) ==
    IF table[<<r, u>>] = <<>> THEN InsertPresence(table, r, u, SaveStamp(t, t))
                              ELSE StampPresence(table, r, u, SaveStamp(t, t))

PresenceBody(count, users) ==
    [kind |-> "presence", active_count |-> count, active_users |-> users]

\* the JSON of room_presence: the count with the clock read as t1, the
\* usernames (in the order the database returns the rows) with it read as t2
PresenceReply(s, r, table, t1, t2) ==
    \E ord \in Orderings(ActiveRows(table, r, t2, PresenceThreshold)) :
        resp' = Response("room_presence", s, r, 200,
                         PresenceBody(GetActiveUsers(table, r, t1, PresenceThreshold),
                                      [i \in DOMAIN ord |-> Username(ord[i][1])]))

\* room_presence, handled to completion within `drift` ticks
RoomPresenceWithin(drift, s, r) ==
    /\ r \in DOMAIN rooms
    /\ \E t1 \in LaterReads(now) : \E t2 \in LaterReads(t1) :
        /\ t2 - now <= drift
        /\ presence' = UpdatePresence(presence, r, SessionUser(s), now)
        /\ PresenceReply(s, r, presence', t1, t2)
        /\ now' = t2
    /\ UNCHANGED <<rooms, grants, msgs, hist, keys, req, batch>>

RoomPresence(s, r) == RoomPresenceWithin(MaxFrac, s, r)

AdvancePresence ==
    /\ \E t \in PresenceTimes : t > now /\ now' = t
    /\ UNCHANGED <<rooms, grants, msgs, resp, hist, presence, keys, req, batch>>

\* who sends heartbeats to which room
PresenceCallers == {<<"s1", 1>>, <<"s2", 1>>, <<"s2", 2>>}

PresenceRequest == \E c \in PresenceCallers : RoomPresence(c[1], c[2])

----------------------------------------------------------------------------
(* room_presence, two requests interleaved.  update_or_create runs in a    *)
(* transaction: get() is a SELECT ... FOR UPDATE, so the row it returns is *)
(* held until the save is committed, and the INSERT of get_or_create is    *)
(* refused by unique_together (room, user) when the row exists.            *)

\* whole seconds at which the interleaved heartbeats run
BeatMarks == {0, 10}
BeatTimes == {m * TicksPerSec + f : m \in BeatMarks, f \in 0..MaxFrac}

AdvanceBeat ==
    /\ \E t \in BeatTimes : t > now /\ now' = t
    /\ UNCHANGED <<rooms, grants, msgs, resp, hist, presence, keys, req, batch>>

\* the row of (r, u) is held by a request other than w
HeldByOther(w, r, u) ==
    \E o \in DOMAIN req \ {w} :
        /\ req[o].pc = "save"
        /\ req[o].room = r
        /\ SessionUser(req[o].session) = u

\* an INSERT that no constraint refuses
CreateNeverConflicts(table, r, u) == FALSE

\* unique_together (room, user): the INSERT raises IntegrityError
CreateConflicts(table, r, u) == table[<<r, u>>] # <<>>

\* the room is fetched and the defaults are evaluated
BeatLoad(w, s, r) ==
    /\ req[w].pc = "idle"
    /\ \A o \in DOMAIN req : o < w => req[o].pc # "idle"
    /\ r \in DOMAIN rooms
    /\ req' = [req EXCEPT ![w] = [pc |-> "get", session |-> s, room |-> r,
                                  defaults |-> now]]
    /\ UNCHANGED <<now, rooms, grants, msgs, resp, hist, presence, keys, batch>>

\* select_for_update().get(room, user)
BeatGet(w) ==
    LET f == req[w]
        u == SessionUser(f.session)
    IN  /\ f.pc = "get"
        /\ ~HeldByOther(w, f.room, u)
        /\ req' = [req EXCEPT ![w].pc = IF presence[<<f.room, u>>] = <<>>
                                        THEN "create" ELSE "save"]
        /\ UNCHANGED <<now, rooms, grants, msgs, resp, hist, presence, keys, batch>>

\* the rest of the view once the row is written
BeatReply(w) ==
    /\ PresenceReply(req[w].session, req[w].room, presence', now, now)
    /\ req' = [req EXCEPT ![w] = IdleFrame]
    /\ UNCHANGED <<now, rooms, grants, msgs, hist, keys, batch>>

\* DoesNotExist: create(room, user, last_seen); on IntegrityError the
\* row is fetched again and updated
BeatCreate(w) ==
    LET f == req[w]
        u == SessionUser(f.session)
    IN  /\ f.pc = "create"
        /\ IF CreateConflicts(presence, f.room, u)
           THEN /\ ~HeldByOther(w, f.room, u)
                /\ req' = [req EXCEPT ![w].pc = "save"]
                /\ UNCHANGED <<now, rooms, grants, msgs, resp, hist, presence,
                               keys, batch>>
           ELSE /\ presence' = InsertPresence(presence, f.room, u,
                                              SaveStamp(f.defaults, now))
                /\ BeatReply(w)

\* setattr(obj, "last_seen", defaults) and obj.save()
BeatSave(w) ==
    LET f == req[w]
    IN  /\ f.pc = "save"
        /\ presence' = StampPresence(presence, f.room, SessionUser(f.session),
                                     SaveStamp(f.defaults, now))
        /\ BeatReply(w)

\* the room of the interleaved heartbeats
BeatRooms == {1}

BeatRequest == \E w \in DOMAIN req, s \in Sessions, r \in BeatRooms : BeatLoad(w, s, r)

BeatStep == \E w \in DOMAIN req : BeatGet(w) \/ BeatCreate(w) \/ BeatSave(w)

----------------------------------------------------------------------------
(* The chat: sending and listing messages *)

\* at most this many messages are stored where their order is observed
ChatMsgs == MaxMsgs + 1
\* the clock of the chat
ChatTimes == 0..MaxFrac

AdvanceChat ==
    /\ \E t \in ChatTimes : t > now /\ now' = t
    /\ UNCHANGED <<rooms, grants, msgs, resp, hist, presence, keys, req, batch>>

\* who writes to which room
ChatCallers == {<<"s1", 1>>, <<"s2", 1>>, <<"s2", 2>>}

\* the POST of the message form of room_detail
ContentForm(typed) == [method |-> "POST", field |-> "content", value |-> typed]

ChatRequest ==
    \E c \in ChatCallers :
        \/ \E typed \in TypedContents : SendMessageUpTo(ChatMsgs, c[1], c[2], typed)
        \/ \E form \in DetailForms({}, TypedContents) :
             RoomDetailUpTo(ChatMsgs, c[1], c[2], form)
        \/ GetMessages(c[1], c[2])

----------------------------------------------------------------------------
(* Deleting messages and rooms *)

\* the row of the Message table with this id
MessageById(id) == msgs[CHOOSE i \in DOMAIN msgs : msgs[i].id = id]

\* a check that lets the owner of the room through as well
NotAuthorNorOwner(message, u) ==
    message.user # u /\ rooms[message.room].created_by # u

\* message.user != request.user
NotAuthor(message, u) == message.user # u

\* message.delete()
DeleteMessageRow(table, id) == SelectSeq(table, LAMBDA m : m.id # id)

\* message_delete; ajax: the request carries X-Requested-With: XMLHttpRequest
MessageDelete(s, id, ajax) ==
    /\ \E i \in DOMAIN msgs : msgs[i].id = id
    /\ LET message == MessageById(id)
           room_id == message.room
       IN  IF NotAuthor(message, SessionUser(s))
           THEN /\ resp' = IF ajax
                           THEN Response("message_delete", s, room_id, 403, NoBody)
                           ELSE Response("message_delete", s, room_id, 302,
                                         Redirect("room_detail"))
                /\ UNCHANGED msgs
           ELSE /\ msgs' = DeleteMessageRow(msgs, id)
                /\ resp' = IF ajax
                           THEN Response("message_delete", s, room_id, 200,
                                         [kind |-> "deleted"])
                           ELSE Response("message_delete", s, room_id, 302,
                                         Redirect("room_detail"))
    /\ UNCHANGED <<now, rooms, grants, hist, presence, keys, req, batch>>

\* a foreign key that leaves the messages of a deleted room in place
CascadeMessagesNone(table, r) == table

\* Message.room has on_delete=CASCADE
CascadeMessages(table, r) == SelectSeq(table, LAMBDA m : m.room # r)

\* RoomPresence.room has on_delete=CASCADE
CascadePresence(table, r) ==
    [k \in DOMAIN table |-> IF k[1] = r THEN <<>> ELSE table[k]]

\* room_delete
RoomDelete(s, r, method) ==
    /\ r \in DOMAIN rooms
    /\ IF rooms[r].created_by # SessionUser(s)
       THEN /\ resp' = Response("room_delete", s, r, 302, Redirect("room_detail"))
            /\ UNCHANGED <<rooms, msgs, presence>>
       ELSE IF method = "POST"
       THEN /\ rooms' = [x \in DOMAIN rooms \ {r} |-> rooms[x]]
            /\ msgs' = CascadeMessages(msgs, r)
            /\ presence' = CascadePresence(presence, r)
            /\ resp' = Response("room_delete", s, r, 302, Redirect("rooms"))
       ELSE /\ resp' = Response("room_delete", s, r, 200, [kind |-> "confirm_delete"])
            /\ UNCHANGED <<rooms, msgs, presence>>
    /\ UNCHANGED <<now, grants, hist, keys, req, batch>>

\* the content of the messages that get deleted
DeletedContents == {<<"h", "i">>}

DeleteRequest ==
    \/ \E c \in ChatCallers, typed \in DeletedContents :
         SendMessageUpTo(ChatMsgs, c[1], c[2], typed)
    \/ \E c \in PresenceCallers : RoomPresenceWithin(0, c[1], c[2])
    \/ \E s \in Sessions, id \in 1..ChatMsgs, ajax \in BOOLEAN : MessageDelete(s, id, ajax)
    \/ \E s \in Sessions, r \in RoomIds, method \in {"GET", "POST"} :
         RoomDelete(s, r, method)

----------------------------------------------------------------------------
(* RoomPresence.cleanup_old_records, called from outside the requests *)

\* seconds in a day (timedelta(days=days))
SecondsPerDay == 86400
\* the default of the parameter days
DefaultDays == 1
\* the values of days the clean-up is called with
TypedDays == {0, DefaultDays}
\* whole seconds at which heartbeats and clean-ups run
PurgeMarks == {0, PresenceThreshold, SecondsPerDay, SecondsPerDay + PresenceThreshold}
PurgeTimes == {m * TicksPerSec + f : m \in PurgeMarks, f \in 0..MaxFrac}

AdvancePurge ==
    /\ \E t \in PurgeTimes : t > now /\ now' = t
    /\ UNCHANGED <<rooms, grants, msgs, resp, hist, presence, keys, req, batch>>

\* a filter that takes the row whose last_seen is the cutoff itself as well
OldRowsUpToCutoff(row, t, days) ==
    LET cutoff_time == t - days * SecondsPerDay * TicksPerSec
    IN  {i \in DOMAIN row : row[i] <= cutoff_time}

\* filter(last_seen__lt=cutoff_time), on the rows of one (room, user)
OldRows(row, t, days) ==
    LET cutoff_time == t - days * SecondsPerDay * TicksPerSec
    IN  {i \in DOMAIN row : row[i] < cutoff_time}

\* RoomPresence.cleanup_old_records: the table once the old rows are deleted
CleanupOldRecords(table, t, days) ==
    [k \in DOMAIN table |->
        LET old == OldRows(table[k], t, days)
            Kept(x) == \A i \in old : table[k][i] # x
        IN  SelectSeq(table[k], Kept)]

\* a call of the clean-up
Cleanup(days) ==
    /\ presence' = CleanupOldRecords(presence, now, days)
    /\ UNCHANGED <<now, rooms, grants, msgs, resp, hist, keys, req, batch>>

PurgeRequest == \E days \in TypedDays : Cleanup(days)

\* heartbeats that take less than a tick
PresenceRequestNow == \E c \in PresenceCallers : RoomPresenceWithin(0, c[1], c[2])

----------------------------------------------------------------------------
(* A timer view and set_privacy on the same room, interleaved *)

\* the worker that runs the timer views, and the one that runs set_privacy
TimerWorker == 1
PrivacyWorker == 2

\* the response of the timer view is out: its worker takes the next request
TimerDone(w) ==
    /\ req[w].pc = "done"
    /\ req' = [req EXCEPT ![w] = IdleFrame]
    /\ batch' = NoBatch
    /\ UNCHANGED <<now, rooms, grants, msgs, resp, hist, presence, keys>>

MixedRequest ==
    \/ \E op \in TimerOps, s \in Sessions, r \in TimerRooms : Load(TimerWorker, op, s, r)
    \/ Act(TimerWorker)
    \/ Save(TimerWorker)
    \/ State(TimerWorker)
    \/ SaveState(TimerWorker)
    \/ TimerDone(TimerWorker)
    \/ \E s \in Sessions, r \in TimerRooms, p \in BOOLEAN :
         PrivacyLoad(PrivacyWorker, s, r, p)
    \/ PrivacyAssign(PrivacyWorker)
    \/ PrivacyCommit(PrivacyWorker)

----------------------------------------------------------------------------
(* Every kind of request a session makes, around the grant of room 1 *)

\* the rooms at the start and one more
RoomsWithOneMore == MaxRooms + 1

SessionRequest ==
    \/ \E s \in Sessions :
         \/ \E r \in ToggledRooms, p \in BOOLEAN : SetPrivacy(s, r, p)
         \/ \E typed \in TypedCodes : JoinPrivateRoom(s, typed)
         \/ \E r \in ToggledRooms, form \in DetailForms(TypedCodes, {<<"h", "i">>}) :
              RoomDetail(s, r, form)
         \/ \E r \in ToggledRooms : SendMessage(s, r, <<"h", "i">>)
         \/ \E r \in ToggledRooms : RoomPresenceWithin(0, s, r)
         \/ \E r \in TimerRooms : TimerStart(s, r) \/ TimerState(s, r)
         \/ \E name \in TypedNames : CreateRoomUpTo(RoomsWithOneMore, s, name)
    \/ \E r \in ToggledRooms : AdminMakePrivateNoCode(r)

----------------------------------------------------------------------------
(* Specifications *)

\* the timer of a room, requests handled one at a time
Next == Advance \/ TimerRequest

Spec == Init /\ [][Next]_vars

\* private rooms and their content, requests handled one at a time
NextAccess == AccessRequest

SpecAccess == Init /\ [][NextAccess]_vars

\* the timer of a room, two requests interleaved
NextConc == AdvanceConc \/ ConcRequest \/ NextPair

SpecConc == Init /\ [][NextConc]_vars

\* room creation and set_privacy, two requests interleaved
NextPrivacy == CreateRequest \/ PrivacyRequest

SpecPrivacy == InitPrivacy /\ [][NextPrivacy]_vars

\* codes and grants, requests handled one at a time, with admin edits
NextGrant == GrantRequest \/ AdminRequest

SpecGrant == Init /\ [][NextGrant]_vars

\* codes and grants, with the history of the code of each grant
NextKeyed == KeyedRequest

SpecKeyed == InitKeyed /\ [][NextKeyed]_vars

\* heartbeats, requests handled one at a time
NextPresence == AdvancePresence \/ PresenceRequest

SpecPresence == Init /\ [][NextPresence]_vars

\* heartbeats, two requests interleaved
NextBeat == AdvanceBeat \/ BeatRequest \/ BeatStep

SpecBeat == Init /\ [][NextBeat]_vars

\* sending and listing messages, requests handled one at a time
NextChat == AdvanceChat \/ ChatRequest

SpecChat == Init /\ [][NextChat]_vars

\* deleting messages and rooms, requests handled one at a time
NextDelete == DeleteRequest

SpecDelete == Init /\ [][NextDelete]_vars

\* heartbeats and the clean-up of old presence rows
NextPurge == AdvancePurge \/ PresenceRequestNow \/ PurgeRequest

SpecPurge == Init /\ [][NextPurge]_vars

\* room creation by every session, requests handled one at a time
NextCreate == RoomsRequest

SpecCreate == InitPrivacy /\ [][NextCreate]_vars

\* a timer request and a set_privacy request on one room, interleaved
NextMixed == AdvanceConc \/ MixedRequest

SpecMixed == Init /\ [][NextMixed]_vars

\* every kind of request, handled one at a time
NextSession == SessionRequest

SpecSession == Init /\ [][NextSession]_vars

\* the room lists, requests handled one at a time
NextList == ListRequest \/ VisibilityRequest

SpecList == Init /\ [][NextList]_vars

----------------------------------------------------------------------------
(* Claims about the timer, checked under Spec *)

ControlOps == {"timer_start", "timer_pause", "timer_reset"}

\* ticks between the stored start of a running room and the clock
TicksRunning(room) == now - TheValue(room.timer_started_at)

\* the request just completed is a `op` request
Completed(op) == resp' # resp /\ resp'.op = op

\* C1: in every reachable state, timer_started_at is non-null if and only
\* if timer_is_running is true.
C1_StartedAtIffRunning ==
    \A r \in RoomIds :
        (~IsNone(rooms[r].timer_started_at)) <=> rooms[r].timer_is_running

\* C3: a timer_start, timer_pause or timer_reset by a user who is not the
\* room's creator answers 403 and leaves every stored room unchanged.
C3_NonOwnerControlRejected ==
    [][(resp'.op \in ControlOps /\ rooms[resp'.room].created_by # resp'.user)
         => (resp'.status = 403 /\ resp'.body = NoBody /\ rooms' = rooms)]_vars

\* C3 witness: a non-creator's timer_pause was refused while the timer was
\* running with its time already elapsed.
C3_Witness ==
    /\ resp.op = "timer_pause" /\ resp.status = 403 /\ resp.user = "u2"
    /\ rooms[1].timer_is_running
    /\ TicksRunning(rooms[1]) >= rooms[1].timer_duration * TicksPerSec

\* C4: a state read of a running timer at now = t0 + e with e >= D returns
\* is_running = false, the flipped mode, duration and time_left equal to the
\* new mode's default (work 1500, break 300), stores this transition, and any
\* read at the same or a later time returns the same snapshot and stores
\* nothing.
C4_ExpiredReadFlipsOnce ==
    [][\A r \in RoomIds :
         (/\ Completed("timer_state") /\ resp'.room = r
          /\ rooms[r].timer_is_running
          /\ TicksRunning(rooms[r]) >= rooms[r].timer_duration * TicksPerSec)
         => LET m == IF rooms[r].timer_mode = "work" THEN "break" ELSE "work"
                d == IF m = "work" THEN 1500 ELSE 300
                snap == [is_running |-> FALSE, time_left |-> d,
                         mode |-> m, duration |-> d]
            IN  /\ resp'.body = TimerBody(snap)
                /\ rooms'[r].timer_is_running = FALSE
                /\ rooms'[r].timer_mode = m
                /\ rooms'[r].timer_duration = d
                /\ \A t \in TimePoints :
                     t >= now =>
                       /\ GetTimerState(rooms'[r], t).state = snap
                       /\ GetTimerState(rooms'[r], t).obj = rooms'[r]
                       /\ ~GetTimerState(rooms'[r], t).saved]_vars

\* C4 witness: a state read has just performed the expiry of a break session
\* (the second flip, back to work).
C4_Witness ==
    /\ resp.op = "timer_state" /\ resp.status = 200
    /\ resp.body = TimerBody([is_running |-> FALSE, time_left |-> 1500,
                              mode |-> "work", duration |-> 1500])
    /\ ~rooms[1].timer_is_running
    /\ hist[1].duration = BreakDuration
    /\ now - hist[1].at >= BreakDuration * TicksPerSec
    /\ rooms[1].timer_started_at = Some(hist[1].at)

\* C6 as stated: a state read of a running timer at now = t0 + e with
\* 0 <= e < D returns time_left = D - e (e the exact time elapsed) and
\* is_running = true, and leaves the stored room unchanged.
C6_TimeLeftExact ==
    [][\A r \in RoomIds :
         (/\ Completed("timer_state") /\ resp'.room = r
          /\ rooms[r].timer_is_running
          /\ TicksRunning(rooms[r]) >= 0
          /\ TicksRunning(rooms[r]) < rooms[r].timer_duration * TicksPerSec)
         => /\ resp'.body.state.time_left * TicksPerSec
                 = rooms[r].timer_duration * TicksPerSec - TicksRunning(rooms[r])
            /\ resp'.body.state.is_running
            /\ rooms' = rooms]_vars

\* C6 amended: a state read of a running timer at now = t0 + e with
\* 0 <= e < D returns time_left = D - floor(e), the elapsed time truncated to
\* whole seconds, and is_running = true, with mode and duration as stored,
\* and leaves the stored room unchanged.
C6_TimeLeftWholeSeconds ==
    [][\A r \in RoomIds :
         (/\ Completed("timer_state") /\ resp'.room = r
          /\ rooms[r].timer_is_running
          /\ TicksRunning(rooms[r]) >= 0
          /\ TicksRunning(rooms[r]) < rooms[r].timer_duration * TicksPerSec)
         => /\ resp'.body =
                 TimerBody([is_running |-> TRUE,
                            time_left |-> rooms[r].timer_duration
                                          - (TicksRunning(rooms[r]) \div TicksPerSec),
                            mode |-> rooms[r].timer_mode,
                            duration |-> rooms[r].timer_duration])
            /\ rooms' = rooms]_vars

\* C6 witness: a read one tick after the 100th second of a work session
\* started at 0 has answered 1400.
C6_Witness ==
    /\ resp.op = "timer_state" /\ resp.status = 200
    /\ resp.body.kind = "timer"
    /\ resp.body.state.is_running
    /\ resp.body.state.time_left = WorkDuration - 100
    /\ rooms[1].timer_started_at = Some(0)
    /\ now = 100 * TicksPerSec + 1

\* C7: for a room whose timer is not running, a state read returns time_left
\* equal to the stored timer_duration and is_running = false, whatever the
\* clock, and does not modify the room.
C7_PausedReadReturnsStored ==
    [][\A r \in RoomIds :
         (/\ Completed("timer_state") /\ resp'.room = r
          /\ ~rooms[r].timer_is_running)
         => /\ resp'.body.state.time_left = rooms[r].timer_duration
            /\ resp'.body.state.is_running = FALSE
            /\ rooms' = rooms
            /\ \A t \in TimePoints :
                 /\ GetTimerState(rooms[r], t).state.time_left = rooms[r].timer_duration
                 /\ GetTimerState(rooms[r], t).state.is_running = FALSE
                 /\ GetTimerState(rooms[r], t).obj = rooms[r]
                 /\ ~GetTimerState(rooms[r], t).saved]_vars

\* C7 witness: a paused timer with 1400 seconds banked was read 200 seconds
\* or more after it was paused.
C7_Witness ==
    /\ resp.op = "timer_state" /\ resp.status = 200
    /\ resp.body.kind = "timer"
    /\ ~resp.body.state.is_running
    /\ resp.body.state.time_left = WorkDuration - 100
    /\ ~rooms[1].timer_is_running
    /\ IsNone(rooms[1].timer_started_at)
    /\ now >= 300 * TicksPerSec

\* C8: when the owner pauses a running timer that has not expired, the stored
\* timer_duration becomes the duration stored before the matching start
\* minus the whole seconds elapsed between that start and the pause.
C8_PauseBanksRemaining ==
    [][\A r \in RoomIds :
         (/\ Completed("timer_pause") /\ resp'.room = r /\ resp'.status = 200
          /\ rooms[r].timer_is_running
          /\ TicksRunning(rooms[r]) < rooms[r].timer_duration * TicksPerSec)
         => /\ rooms'[r].timer_duration
                 = hist[r].duration - ((now - hist[r].at) \div TicksPerSec)
            /\ rooms'[r].timer_is_running = FALSE
            /\ IsNone(rooms'[r].timer_started_at)
            /\ resp'.body.state.time_left = rooms'[r].timer_duration]_vars

\* C8 witness: 1500, paused after 100 s (1400), started again and paused
\* after another 50 s: 1350 is stored.
C8_Witness ==
    /\ resp.op = "timer_pause" /\ resp.status = 200
    /\ hist[1] = [duration |-> 1400, at |-> 100 * TicksPerSec]
    /\ now = 150 * TicksPerSec
    /\ rooms[1].timer_duration = 1350
    /\ ~rooms[1].timer_is_running

\* C9: timer_reset by the owner, from any prior state, stores
\* is_running = false, timer_started_at = null, mode = work, duration = 1500
\* and returns {is_running: false, time_left: 1500, mode: work, duration: 1500}.
C9_ResetYieldsFreshWork ==
    [][\A r \in RoomIds :
         (/\ resp'.op = "timer_reset" /\ resp'.room = r
          /\ rooms[r].created_by = resp'.user)
         => /\ resp'.status = 200
            /\ resp'.body = TimerBody([is_running |-> FALSE, time_left |-> 1500,
                                       mode |-> "work", duration |-> 1500])
            /\ rooms'[r].timer_is_running = FALSE
            /\ IsNone(rooms'[r].timer_started_at)
            /\ rooms'[r].timer_mode = "work"
            /\ rooms'[r].timer_duration = 1500]_vars

\* C9 witness: the owner has reset a timer last started in a break session.
C9_Witness ==
    /\ resp.op = "timer_reset" /\ resp.status = 200
    /\ hist[1].duration = BreakDuration
    /\ rooms[1].timer_mode = "work"
    /\ rooms[1].timer_duration = WorkDuration

\* C10 as stated: timer_start by the owner on a running timer changes none
\* of timer_started_at, timer_duration, timer_mode (and timer_is_running).
C10_StartOnRunningNoOp ==
    [][\A r \in RoomIds :
         (/\ Completed("timer_start") /\ resp'.room = r /\ resp'.status = 200
          /\ rooms[r].timer_is_running)
         => rooms'[r] = rooms[r]]_vars

\* C10 amended: timer_start by the owner on a running timer never changes
\* timer_started_at; while the timer has not expired it changes nothing in the
\* room and returns the running state; once the timer has expired, the state
\* read that builds the response performs and stores the expiry transition
\* (is_running = false, mode flipped, duration = the new mode's default).
C10_StartOnRunningKeepsStart ==
    [][\A r \in RoomIds :
         (/\ Completed("timer_start") /\ resp'.room = r /\ resp'.status = 200
          /\ rooms[r].timer_is_running)
         => /\ rooms'[r].timer_started_at = rooms[r].timer_started_at
            /\ IF TicksRunning(rooms[r]) < rooms[r].timer_duration * TicksPerSec
               THEN /\ rooms'[r] = rooms[r]
                    /\ resp'.body.state.is_running
               ELSE LET m == IF rooms[r].timer_mode = "work" THEN "break" ELSE "work"
                        d == IF m = "work" THEN 1500 ELSE 300
                    IN  /\ rooms'[r] = [rooms[r] EXCEPT !.timer_is_running = FALSE,
                                                        !.timer_mode = m,
                                                        !.timer_duration = d]
                        /\ resp'.body.state =
                             [is_running |-> FALSE, time_left |-> d,
                              mode |-> m, duration |-> d]]_vars

\* C10 witness: the owner called timer_start 100 s into a running session and
\* was answered the running state, the start time still 0.
C10_Witness ==
    /\ resp.op = "timer_start" /\ resp.status = 200
    /\ resp.body.kind = "timer"
    /\ resp.body.state.is_running
    /\ resp.body.state.time_left = WorkDuration - 100
    /\ rooms[1].timer_started_at = Some(0)
    /\ hist[1].at = 0
    /\ now = 100 * TicksPerSec

\* C11: timer_pause by the owner on a timer that is not running leaves the
\* stored room unchanged and returns the current state.
C11_PauseOnPausedNoOp ==
    [][\A r \in RoomIds :
         (/\ resp'.op = "timer_pause" /\ resp'.room = r /\ resp'.status = 200
          /\ ~rooms[r].timer_is_running)
         => /\ rooms'[r] = rooms[r]
            /\ resp'.body =
                 TimerBody([is_running |-> FALSE,
                            time_left |-> rooms[r].timer_duration,
                            mode |-> rooms[r].timer_mode,
                            duration |-> rooms[r].timer_duration])]_vars

\* C11 witness: the owner has paused a timer that a read had already stopped
\* at expiry (the start time is still stored, which an effective pause
\* clears); the room still holds the full break.
C11_Witness ==
    /\ resp.op = "timer_pause" /\ resp.status = 200
    /\ resp.body.kind = "timer"
    /\ resp.body.state.time_left = BreakDuration
    /\ ~rooms[1].timer_is_running
    /\ rooms[1].timer_started_at # None
    /\ rooms[1].timer_mode = "break"
    /\ rooms[1].timer_duration = BreakDuration

----------------------------------------------------------------------------
(* Claims about private rooms, checked under SpecAccess *)

\* C2: the detail page or the message list of a private room is served only
\* to the room's creator or to a session holding a grant for that room.
C2_PrivateContentNeedsAccess ==
    (resp.op \in {"room_detail", "get_messages"}
       /\ resp.body.kind \in {"detail", "messages"})
    => CanView(resp.session, resp.room)

----------------------------------------------------------------------------
(* Claims about interleaved timer requests, checked under SpecConc *)

\* the rows that running the two requests of the pair one after the other,
\* in either order, at clocks within the pair's lifetime, can leave
SerialOutcomes ==
    LET times == {t \in ConcTimes : batch.t0 <= t /\ t <= now}
        a == batch.ops[1]
        b == batch.ops[2]
        ordered == {p \in times \X times \X times \X times :
                      p[1] <= p[2] /\ p[2] <= p[3] /\ p[3] <= p[4]}
    IN  {Alone(b.op, b.session,
               Alone(a.op, a.session, batch.base, p[1], p[2]), p[3], p[4]) :
            p \in ordered}
        \cup
        {Alone(a.op, a.session,
               Alone(b.op, b.session, batch.base, p[1], p[2]), p[3], p[4]) :
            p \in ordered}

\* C5: when two interleaved timer requests by the room's creator have both
\* completed, the stored room is what running them one after the other, in
\* some order, leaves.
C5_PairSerializable ==
    (batch.active /\ BothDone) => rooms[batch.room] \in SerialOutcomes

----------------------------------------------------------------------------
(* Claims about privacy, codes and sending, checked under SpecAccess *)

\* C13: set_privacy called by a user who is not the room's owner answers 403
\* with success = false and leaves is_private and password as they were.
C13_NonOwnerPrivacyRejected ==
    [][(resp'.op = "set_privacy" /\ rooms[resp'.room].created_by # resp'.user)
         => /\ resp'.status = 403
            /\ resp'.body.kind = "privacy" /\ resp'.body.success = FALSE
            /\ rooms'[resp'.room].is_private = rooms[resp'.room].is_private
            /\ rooms'[resp'.room].password = rooms[resp'.room].password]_vars

\* C13 witness: u2 was refused on room 1, which u1 had made private and which
\* still carries its code.
C13_Witness ==
    /\ resp.op = "set_privacy" /\ resp.status = 403
    /\ resp.user = "u2" /\ resp.room = 1
    /\ rooms[1].is_private /\ rooms[1].password # None

WellFormedCode(code) ==
    /\ Len(code) >= CodeLength /\ Len(code) <= MaxCodeLength
    /\ \A i \in 1..Len(code) : code[i] \in Characters

\* C14: every code generate_private_code returns, the fallback included, has
\* 6 to 8 characters, all of them uppercase letters or digits other than
\* 0, O, I and 1.
C14_EveryCodeWellFormed ==
    (/\ resp.op = "set_privacy" /\ resp.status = 200
     /\ resp.body.is_private)
    => WellFormedCode(TheValue(resp.body.code))

\* C18: a message is created in a room only for a caller for whom can_view
\* holds, on the send_message API and on the room_detail form alike.
C18_SendNeedsAccess ==
    [][Len(msgs') > Len(msgs) => CanView(resp'.session, resp'.room)]_vars

----------------------------------------------------------------------------
(* Claims about the stored flag and code, checked under SpecPrivacy *)

PasswordIffPrivate(room) == (room.password # None) <=> room.is_private

\* C12: in every state reached through room creation and set_privacy,
\* requests interleaved, each stored room has a password exactly when it is
\* private; and a set_privacy(false) that completes leaves is_private = false
\* and password = null, also on a room an earlier call had made private.
C12_PasswordIffPrivate ==
    [][/\ \A r \in DOMAIN rooms : PasswordIffPrivate(rooms[r])
       /\ \A r \in DOMAIN rooms' : PasswordIffPrivate(rooms'[r])
       /\ \A r \in DOMAIN rooms :
            (/\ resp' # resp /\ resp'.op = "set_privacy" /\ resp'.room = r
             /\ resp'.status = 200 /\ ~resp'.body.is_private)
            => (~rooms'[r].is_private /\ rooms'[r].password = None)]_vars

\* C12 witness: room 1 is public without a code after a set_privacy(false),
\* while the other request still holds the row it read when the room was
\* private.
C12_Witness ==
    /\ Len(rooms) >= 1
    /\ resp.op = "set_privacy" /\ resp.status = 200 /\ resp.room = 1
    /\ ~resp.body.is_private
    /\ ~rooms[1].is_private /\ rooms[1].password = None
    /\ \E w \in Workers :
         /\ req[w].pc = "atomic" /\ req[w].room = 1
         /\ req[w].obj.is_private /\ req[w].obj.password # None

\* C15: no two private rooms have the same password, in every state reached
\* through room creation and set_privacy, requests interleaved.
C15_CodesDistinct ==
    \A a, b \in DOMAIN rooms :
        (a # b /\ rooms[a].is_private /\ rooms[b].is_private)
        => rooms[a].password # rooms[b].password

----------------------------------------------------------------------------
(* Claims about submitted codes, checked under SpecGrant *)

\* normalize(submitted_code): trimmed, case-insensitive
Normalize(typed) == Upper(Strip(typed))

\* the private-room prompt of room_detail is what session s gets for room r
PromptShown(s, r) ==
    /\ rooms[r].is_private
    /\ rooms[r].created_by # SessionUser(s)
    /\ <<s, r>> \notin grants

\* C16: on join_private_room and on the room_detail prompt alike, the grant
\* for a private room is recorded exactly when the submitted code, trimmed
\* and upper-cased, equals the room's stored code.
C16_GrantIffNormalizedMatch ==
    [][\A s \in Sessions, typed \in TypedCodes, r \in RoomIds :
         /\ (/\ resp'.op = "join_private_room" /\ JoinPrivateRoom(s, typed)
             /\ rooms[r].is_private /\ <<s, r>> \notin grants)
            => (<<s, r>> \in grants' <=> rooms[r].password = Some(Normalize(typed)))
         /\ (/\ resp'.op = "room_detail" /\ RoomDetail(s, r, PromptForm(typed))
             /\ PromptShown(s, r))
            => (<<s, r>> \in grants' <=> rooms[r].password = Some(Normalize(typed)))]_vars

\* the submitted code is empty or is not the stored code of room r
WrongCode(typed, r) ==
    \/ Normalize(typed) = <<>>
    \/ rooms[r].password # Some(Normalize(typed))

\* C17: a wrong or empty code, submitted to join_private_room or to the
\* room_detail prompt, leaves the grants as they were, also when the private
\* room has no stored code.
C17_WrongCodeNoGrant ==
    [][\A s \in Sessions, typed \in TypedCodes :
         /\ (/\ resp'.op = "join_private_room" /\ JoinPrivateRoom(s, typed)
             /\ \A r \in RoomIds : WrongCode(typed, r))
            => grants' = grants
         /\ \A r \in RoomIds :
              (/\ resp'.op = "room_detail" /\ RoomDetail(s, r, PromptForm(typed))
               /\ WrongCode(typed, r))
              => grants' = grants]_vars

\* C17 witness: the prompt of a private room without a stored code has
\* turned a submitted code down, and the session holds no grant.
C17_Witness ==
    /\ resp.op = "room_detail" /\ resp.status = 200
    /\ resp.body.kind = "prompt" /\ resp.body.error
    /\ rooms[resp.room].is_private /\ rooms[resp.room].password = None
    /\ grants = {}

----------------------------------------------------------------------------
(* Claims about the room lists, checked under SpecList *)

IsListing(r) == r.status = 200 /\ r.body.kind = "rooms"

ListedIds(body) == {body.rooms[i].id : i \in 1..Len(body.rooms)}

NoRepeats(body) ==
    \A i, j \in 1..Len(body.rooms) : i # j => body.rooms[i].id # body.rooms[j].id

\* the rooms for which can_view holds for session s
Viewable(s) == {r \in DOMAIN rooms : CanView(s, r)}

QueryMatches(typed, r) ==
    \/ Contains(Lower(Strip(typed)), Lower(rooms[r].name))
    \/ Contains(Lower(Strip(typed)), Lower(Username(rooms[r].created_by)))

C20_NoGrantListsPublicOnly ==
    (/\ IsListing(resp) /\ resp.op \in {"rooms", "get_rooms"}
     /\ \A r \in DOMAIN rooms : <<resp.session, r>> \notin grants)
    => \A r \in ListedIds(resp.body) : ~rooms[r].is_private

----------------------------------------------------------------------------
(* Claims about who changes a room, checked under Spec *)

\* the privacy fields and the timer fields of a row
RoomSettings(room) ==
    <<room.is_private, room.password, room.timer_is_running,
      room.timer_started_at, room.timer_duration, room.timer_mode>>

\* C22: the privacy fields and the timer fields of a room change only in a
\* request made by the room's owner; no request of another user, a timer
\* state read included, changes them.
C22_OnlyOwnerChangesRoom ==
    [][\A r \in RoomIds :
         RoomSettings(rooms'[r]) # RoomSettings(rooms[r])
         => resp'.user = rooms[r].created_by]_vars

----------------------------------------------------------------------------
(* Claims about the lifetime of a grant, checked under SpecKeyed *)

\* C21: once the owner has made the room public and private again with a
\* new code, a non-owner session whose grant was obtained with the old code
\* cannot view the room until it submits the new code.
C21_ToggleRevokesGrant ==
    \A k \in keys.of :
        (/\ k.lapsed
         /\ rooms[k.room].is_private
         /\ rooms[k.room].password # k.code
         /\ rooms[k.room].created_by # SessionUser(k.session))
        => ~CanView(k.session, k.room)

----------------------------------------------------------------------------
(* Claims about the scope of a grant, checked under SpecGrant *)

\* the private rooms whose stored code is the submitted code, normalized
Matching(typed) ==
    {r \in RoomIds : rooms[r].is_private /\ rooms[r].password = Some(Normalize(typed))}

\* C30: a successful code submission adds the grant of the calling session
\* for the matching room and no other grant, and a repeated submission
\* leaves the grants as they are.
C30_GrantScopedToSessionAndRoom ==
    [][\A s \in Sessions, typed \in TypedCodes :
         /\ (resp'.op = "join_private_room" /\ JoinPrivateRoom(s, typed))
            => /\ grants \subseteq grants'
               /\ \A g \in grants' \ grants : g[1] = s /\ g[2] \in Matching(typed)
               /\ Cardinality(grants' \ grants) <= 1
               /\ (resp'.body = Redirect("room_detail"))
                  => (resp'.room \in Matching(typed) /\ <<s, resp'.room>> \in grants')
         /\ \A r \in RoomIds :
              (resp'.op = "room_detail" /\ RoomDetail(s, r, PromptForm(typed)))
              => /\ grants \subseteq grants'
                 /\ grants' \ grants \subseteq {<<s, r>>}
                 /\ (resp'.body = Redirect("room_detail"))
                    => <<s, r>> \in grants']_vars

\* C30 witness: both rooms are private, s2 has joined room 1 with its code
\* and holds that grant alone, and s1 holds none.
C30_Witness ==
    /\ resp.op = "join_private_room" /\ resp.body = Redirect("room_detail")
    /\ resp.session = "s2" /\ resp.room = 1
    /\ rooms[1].is_private /\ rooms[2].is_private
    /\ grants = {<<"s2", 1>>}

----------------------------------------------------------------------------
(* Claims about presence, checked under SpecPresence and SpecBeat *)

\* the rows of room r whose last_seen is at most `seconds` old at the clock t
RowsWithin(r, t, seconds) ==
    {k \in RoomRows(presence, r) :
        t - LastSeen(presence, r, k) <= seconds * TicksPerSec}

\* C23: the active count of a room at the clock now, with the window of
\* 30 seconds, is the number of RoomPresence rows of that room whose
\* last_seen is not older than 30 seconds: a row of exactly 30 seconds ago
\* is counted, an older one is not, and no row of another room is.
C23_ActiveCountIsRowsInWindow ==
    \A r \in RoomIds :
        GetActiveUsers(presence, r, now, PresenceThreshold)
            = Cardinality(RowsWithin(r, now, PresenceThreshold))

\* room 1 has a row of 40 seconds ago and one of exactly 30 seconds ago,
\* room 2 one of 10 seconds ago: room 1 counts one user
C23_Witness ==
    /\ now = 40 * TicksPerSec
    /\ presence[<<1, "u1">>] = <<0>>
    /\ presence[<<1, "u2">>] = <<10 * TicksPerSec>>
    /\ presence[<<2, "u2">>] = <<30 * TicksPerSec>>
    /\ GetActiveUsers(presence, 1, now, PresenceThreshold) = 1
    /\ GetActiveUsers(presence, 2, now, PresenceThreshold) = 1

\* C24: whichever way heartbeats interleave, two of the same user in the
\* same room included, the table changes only by a heartbeat that
\* completes, and that heartbeat leaves exactly one row for its (room,
\* user), with last_seen the clock at its save; so there is never more
\* than one row per pair and the row carries the time of the latest
\* heartbeat.
C24_OneRowStampedByLatestBeat ==
    [][/\ \A k \in DOMAIN presence :
            presence'[k] # presence[k] =>
                /\ presence'[k] = <<now>>
                /\ resp'.op = "room_presence"
                /\ resp'.room = k[1]
                /\ resp'.user = k[2]
       /\ \A w \in DOMAIN req :
            (req[w].pc # "idle" /\ req'[w].pc = "idle") =>
                presence'[<<req[w].room, SessionUser(req[w].session)>>] = <<now>>
      ]_vars

\* two heartbeats of u1 in room 1 both found no row; the first has
\* inserted one at a later clock and the second is about to insert
C24_Witness ==
    /\ req[1].pc = "idle"
    /\ req[2].pc = "create"
    /\ req[2].session = "s1"
    /\ req[2].room = 1
    /\ resp.op = "room_presence"
    /\ resp.session = "s1"
    /\ presence[<<1, "u1">>] = <<now>>
    /\ now > req[2].defaults

\* the usernames of a response of room_presence
ListedUsers(body) == {body.active_users[i] : i \in DOMAIN body.active_users}

\* C25: a response of room_presence is a 200 that counts the caller (the
\* caller's username is listed and active_count is at least 1), and lists
\* every other user whose row in that room is at most 30 seconds old.
C25_ResponseCountsCaller ==
    [][\A c \in PresenceCallers :
          (resp'.op = "room_presence" /\ RoomPresence(c[1], c[2])) =>
              /\ resp'.status = 200
              /\ Username(SessionUser(c[1])) \in ListedUsers(resp'.body)
              /\ resp'.body.active_count >= 1
              /\ \A u \in PresenceUsers :
                    (/\ u # SessionUser(c[1])
                     /\ presence[<<c[2], u>>] # <<>>
                     /\ now' - presence[<<c[2], u>>][1]
                            <= PresenceThreshold * TicksPerSec)
                    => Username(u) \in ListedUsers(resp'.body)
      ]_vars

\* u2 sends a heartbeat to room 1 exactly 30 seconds after u1 did: both
\* are listed
C25_Witness ==
    /\ resp.op = "room_presence"
    /\ resp.user = "u2"
    /\ resp.room = 1
    /\ now = 30 * TicksPerSec
    /\ presence[<<1, "u1">>] = <<0>>
    /\ resp.body.active_count = 2
    /\ ListedUsers(resp.body) = {Username("u1"), Username("u2")}

----------------------------------------------------------------------------
(* Claims about the chat, checked under SpecChat *)

\* the step is a send of `typed` to room c[2] by session c[1], by the
\* API or by the form of room_detail
SendsContent(c, typed) ==
    \/ resp'.op = "send_message" /\ SendMessageUpTo(ChatMsgs, c[1], c[2], typed)
    \/ resp'.op = "room_detail"
         /\ RoomDetailUpTo(ChatMsgs, c[1], c[2], ContentForm(typed))

\* the rows of room r in the order they were inserted
InsertionOrder(r) == SelectSeq(msgs, LAMBDA m : m.room = r)

\* C26: on both send paths (send_message and the form of room_detail),
\* content that is empty or only whitespace creates no Message row (and
\* send_message answers 400), and any other content creates exactly one
\* row, of that room and sender, which every following list of the room
\* contains.
C26_BlankContentCreatesNoRow ==
    [][\A c \in ChatCallers, typed \in TypedContents :
          SendsContent(c, typed) =>
              IF Strip(typed) = <<>>
              THEN /\ msgs' = msgs
                   /\ resp'.op = "send_message" => resp'.status = 400
              ELSE /\ Len(msgs') = Len(msgs) + 1
                   /\ SubSeq(msgs', 1, Len(msgs)) = msgs
                   /\ msgs'[Len(msgs')].room = c[2]
                   /\ msgs'[Len(msgs')].user = SessionUser(c[1])
                   /\ \A rows \in RoomMessages(c[2])' :
                        \E i \in DOMAIN rows : rows[i] = msgs'[Len(msgs')]
      ]_vars

\* the list of a get_messages response has exactly the rows of the room,
\* each once, with the row's fields and is_own for the caller
ListsRoomRows(body, r, u) ==
    /\ {body.messages[i].id : i \in DOMAIN body.messages}
           = {msgs[i].id : i \in {j \in DOMAIN msgs : msgs[j].room = r}}
    /\ Len(body.messages) = Len(InsertionOrder(r))
    /\ \A i \in DOMAIN body.messages :
         LET m == body.messages[i]
             row == MessageById(m.id)
         IN  /\ m.user = row.user
             /\ m.content = row.content
             /\ m.timestamp = row.timestamp
             /\ m.is_own = (row.user = u)

\* C27 as stated: get_messages returns all and only the messages of the
\* room in insertion order, each with is_own = (author = caller).
C27_ListInInsertionOrder ==
    [][\A c \in ChatCallers :
          (resp'.op = "get_messages" /\ GetMessages(c[1], c[2])) =>
              resp'.body.messages
                  = MessagesData(InsertionOrder(c[2]), SessionUser(c[1]))
      ]_vars

\* C27 amended: get_messages returns all and only the messages of the
\* room, each once and with is_own = (author = caller), in ascending
\* order of timestamp; messages of different timestamps are therefore in
\* insertion order, messages of equal timestamp in any order.
C27_ListByTimestamp ==
    [][\A c \in ChatCallers :
          (resp'.op = "get_messages" /\ GetMessages(c[1], c[2])) =>
              /\ ListsRoomRows(resp'.body, c[2], SessionUser(c[1]))
              /\ \A i, j \in DOMAIN resp'.body.messages :
                   i < j =>
                     /\ resp'.body.messages[i].timestamp
                            <= resp'.body.messages[j].timestamp
                     /\ resp'.body.messages[i].timestamp
                            < resp'.body.messages[j].timestamp
                          => resp'.body.messages[i].id < resp'.body.messages[j].id
      ]_vars

\* u1 lists room 1, which has a message of u2 and a later one of u1
C27_Witness ==
    /\ resp.op = "get_messages"
    /\ resp.user = "u1"
    /\ resp.room = 1
    /\ Len(resp.body.messages) = 2
    /\ resp.body.messages[1].timestamp < resp.body.messages[2].timestamp
    /\ ~resp.body.messages[1].is_own
    /\ resp.body.messages[2].is_own

----------------------------------------------------------------------------
(* Claims about deletion, checked under SpecDelete *)

\* C28 as stated: message_delete by anyone but the author answers 403
\* and leaves the table as it is; by the author it removes that row and
\* no other.
C28_NonAuthorGets403 ==
    [][\A s \in Sessions, id \in 1..ChatMsgs, ajax \in BOOLEAN :
          (resp'.op = "message_delete" /\ MessageDelete(s, id, ajax)) =>
              IF MessageById(id).user # SessionUser(s)
              THEN resp'.status = 403 /\ msgs' = msgs
              ELSE msgs' = SelectSeq(msgs, LAMBDA m : m.id # id)
      ]_vars

\* C28 amended: message_delete by anyone but the author, the owner of the
\* room included, leaves the table as it is and answers 403 to an
\* XMLHttpRequest and a redirect to the room otherwise; by the author it
\* removes that row and no other, and answers 200 or the redirect.
C28_NonAuthorRefused ==
    [][\A s \in Sessions, id \in 1..ChatMsgs, ajax \in BOOLEAN :
          (resp'.op = "message_delete" /\ MessageDelete(s, id, ajax)) =>
              IF MessageById(id).user # SessionUser(s)
              THEN /\ msgs' = msgs
                   /\ resp'.status = (IF ajax THEN 403 ELSE 302)
                   /\ ~ajax => resp'.body = Redirect("room_detail")
              ELSE /\ msgs' = SelectSeq(msgs, LAMBDA m : m.id # id)
                   /\ Len(msgs') = Len(msgs) - 1
                   /\ resp'.status = (IF ajax THEN 200 ELSE 302)
      ]_vars

\* u1, who owns room 1, is refused the deletion of a message u2 wrote
\* there
C28_Witness ==
    /\ resp.op = "message_delete"
    /\ resp.status = 403
    /\ resp.user = "u1"
    /\ resp.room = 1
    /\ \E i \in DOMAIN msgs : msgs[i].room = 1 /\ msgs[i].user = "u2"
    /\ Len(msgs) = 2

\* C29: room_delete by a user who is not the owner leaves the room, the
\* messages and the presence rows as they are; the owner's POST removes
\* the room with all its messages and presence rows and nothing of any
\* other room; a room disappears only by its owner's request, and no row
\* is left that belongs to a room that is gone.
C29_OnlyOwnerDeletesRoom ==
    [][/\ \A s \in Sessions, r \in RoomIds, method \in {"GET", "POST"} :
            (resp'.op = "room_delete" /\ RoomDelete(s, r, method)) =>
                IF rooms[r].created_by = SessionUser(s) /\ method = "POST"
                THEN /\ DOMAIN rooms' = DOMAIN rooms \ {r}
                     /\ \A x \in DOMAIN rooms' : rooms'[x] = rooms[x]
                     /\ msgs' = SelectSeq(msgs, LAMBDA m : m.room # r)
                     /\ \A k \in DOMAIN presence :
                          presence'[k] = IF k[1] = r THEN <<>> ELSE presence[k]
                ELSE UNCHANGED <<rooms, msgs, presence>>
       /\ \A r \in DOMAIN rooms \ DOMAIN rooms' :
            resp'.op = "room_delete" /\ resp'.user = rooms[r].created_by
       /\ \A i \in DOMAIN msgs' : msgs'[i].room \in DOMAIN rooms'
       /\ \A k \in DOMAIN presence' : presence'[k] # <<>> => k[1] \in DOMAIN rooms'
      ]_vars

\* u1 has deleted room 1, which had the first message; the message and
\* the presence row of room 2 are still there
C29_Witness ==
    /\ resp.op = "room_delete"
    /\ resp.user = "u1"
    /\ resp.body = Redirect("rooms")
    /\ DOMAIN rooms = {2}
    /\ Len(msgs) = 1
    /\ msgs[1].id = 2
    /\ msgs[1].room = 2
    /\ presence[<<2, "u2">>] # <<>>
    /\ presence[<<1, "u2">>] = <<>>

----------------------------------------------------------------------------
(* Claims about the clean-up of presence rows, checked under SpecPurge *)

\* C31: cleanup_old_records deletes exactly the rows whose last_seen is
\* earlier than the clock minus `days` days (a row of exactly that age
\* stays) and no other row; called with the default of one day it removes
\* no row that get_active_users counts in the window of 30 seconds.
C31_PurgeDeletesOnlyOldRows ==
    [][\A days \in TypedDays :
          (presence' # presence /\ Cleanup(days)) =>
              /\ \A k \in DOMAIN presence :
                   LET stays(x) == now - x <= days * SecondsPerDay * TicksPerSec
                   IN  presence'[k] = SelectSeq(presence[k], stays)
              /\ days = DefaultDays =>
                   \A r \in RoomIds :
                       Cardinality(RowsWithin(r, now, PresenceThreshold))'
                           = Cardinality(RowsWithin(r, now, PresenceThreshold))
      ]_vars

\* u1's row in room 1, which u2's last heartbeat still counted, is gone;
\* u2's row, exactly one day old, is still there
C31_Witness ==
    /\ now = (SecondsPerDay + PresenceThreshold) * TicksPerSec
    /\ resp.op = "room_presence"
    /\ resp.user = "u2"
    /\ resp.room = 1
    /\ resp.body.active_count = 2
    /\ presence[<<1, "u1">>] = <<>>
    /\ presence[<<1, "u2">>] = <<PresenceThreshold * TicksPerSec>>

----------------------------------------------------------------------------
(* Claims about room creation, checked under SpecCreate *)

\* C32: a POST to the rooms page with a name adds one room, owned by the
\* caller, public, with no code, its timer not running, in work mode,
\* with the duration of a work session and no start time, and changes no
\* other room; a POST with an empty name adds no room.
C32_CreatedRoomHasDefaults ==
    [][\A s \in Sessions, name \in CreatedNames :
          (resp'.op = "rooms" /\ resp'.status = 302 /\ CreateRoom(s, name)) =>
              IF name = <<>>
              THEN rooms' = rooms
              ELSE /\ Len(rooms') = Len(rooms) + 1
                   /\ SubSeq(rooms', 1, Len(rooms)) = rooms
                   /\ LET room == rooms'[Len(rooms')]
                      IN  /\ room.name = name
                          /\ room.created_by = SessionUser(s)
                          /\ ~room.is_private
                          /\ room.password = None
                          /\ ~room.timer_is_running
                          /\ room.timer_mode = "work"
                          /\ room.timer_duration = WorkDuration
                          /\ room.timer_started_at = None
      ]_vars

\* u2 has created the second room, after u1 created the first
C32_Witness ==
    /\ resp.op = "rooms"
    /\ resp.status = 302
    /\ resp.user = "u2"
    /\ Len(rooms) = 2
    /\ rooms[1].created_by = "u1"
    /\ rooms[2].created_by = "u2"
    /\ rooms[2].timer_duration = 1500
    /\ ~rooms[2].is_private

----------------------------------------------------------------------------
(* Claims about the stored timer and its snapshots, checked under Spec,    *)
(* where the clock only moves forward                                      *)

\* C33: in every reachable state the mode of a room is work or break and
\* its stored duration is between 0 and the length of a session of that
\* mode.
C33_DurationWithinMode ==
    \A r \in RoomIds :
        /\ rooms[r].timer_mode \in {"work", "break"}
        /\ 0 <= rooms[r].timer_duration
        /\ rooms[r].timer_duration <= ModeDuration(rooms[r].timer_mode)

\* a break was paused part of the way: the stored duration is below 300
C33_Witness ==
    /\ resp.op = "timer_pause"
    /\ rooms[1].timer_mode = "break"
    /\ ~rooms[1].timer_is_running
    /\ 0 < rooms[1].timer_duration
    /\ rooms[1].timer_duration < BreakDuration

\* C34: every snapshot a timer view returns has 0 < time_left <= duration.
C34_SnapshotTimeLeftPositive ==
    resp.body.kind = "timer" =>
        /\ 0 < resp.body.state.time_left
        /\ resp.body.state.time_left <= resp.body.state.duration

----------------------------------------------------------------------------
(* Claims about interleaved writes, checked under SpecConc and SpecMixed *)

\* C35: the write of timer_start (room.save() in the view) leaves the
\* stored timer_mode and timer_duration as they were, and the write of
\* timer_pause leaves the stored timer_mode as it was.
C35_StartAndPauseKeepMode ==
    [][\A w \in Workers :
          (req[w].pc = "save" /\ req'[w].pc = "state") =>
              /\ req[w].op = "timer_start" =>
                   /\ rooms'[req[w].room].timer_mode = rooms[req[w].room].timer_mode
                   /\ rooms'[req[w].room].timer_duration
                          = rooms[req[w].room].timer_duration
              /\ req[w].op = "timer_pause" =>
                   rooms'[req[w].room].timer_mode = rooms[req[w].room].timer_mode
      ]_vars

\* the columns of a room that the timer views assign
TimerFields(room) ==
    <<room.timer_is_running, room.timer_started_at, room.timer_duration,
      room.timer_mode>>

\* the columns of a room that set_privacy assigns
PrivacyFields(room) == <<room.is_private, room.password>>

\* C36: a write of a timer view (the save of start, pause or reset, or
\* the save of an expiry) leaves the stored is_private and password as
\* they were, and the write of set_privacy leaves the stored timer
\* columns as they were, also when the two requests overlap.
C36_TimerAndPrivacyWritesDisjoint ==
    [][\A w \in DOMAIN req :
          /\ (req[w].pc \in {"save", "save_state"} /\ req'[w].pc # req[w].pc) =>
                \A r \in RoomIds : PrivacyFields(rooms'[r]) = PrivacyFields(rooms[r])
          /\ (req[w].pc = "commit" /\ req'[w].pc = "idle") =>
                \A r \in RoomIds : TimerFields(rooms'[r]) = TimerFields(rooms[r])
      ]_vars

\* both requests of the pair are state reads
PairOfStateReads ==
    /\ batch.active
    /\ \A w \in Workers : batch.ops[w].op = "timer_state"

\* C37: when two state reads that overlap on a running timer have both
\* completed, the stored row is the row they found or that row after one
\* expiry: stopped, in the mode flipped once, with the length of a session
\* of the new mode; if the timer had already run out when the first of
\* them arrived, it is the row after one expiry.
C37_OverlappingReadsFlipOnce ==
    (PairOfStateReads /\ BothDone /\ batch.base.timer_is_running) =>
        /\ rooms[batch.room] \in {batch.base, ExpireRoom(batch.base)}
        /\ batch.base.timer_duration - Elapsed(batch.base, batch.t0) <= 0 =>
             /\ rooms[batch.room].timer_mode = FlipMode(batch.base.timer_mode)
             /\ rooms[batch.room].timer_duration
                    = ModeDuration(FlipMode(batch.base.timer_mode))
             /\ ~rooms[batch.room].timer_is_running

\* u1 and u2 both read the state of a work session that has run out: one
\* has stored the break, the other is about to store its own expiry
C37_Witness ==
    /\ PairOfStateReads
    /\ batch.ops[1].session # batch.ops[2].session
    /\ batch.base.timer_is_running
    /\ batch.base.timer_mode = "work"
    /\ req[1].pc = "save_state"
    /\ req[2].pc = "done"
    /\ rooms[batch.room].timer_mode = "break"
    /\ rooms[batch.room].timer_duration = BreakDuration

----------------------------------------------------------------------------
(* Claims about where grants come from, checked under SpecSession *)

\* session s submits `typed`, which is not empty and is the code of the
\* private room r, by join_private_room (which trims and upper-cases what
\* was typed) or by the code prompt of room_detail
SubmitsCodeOf(s, r, typed) ==
    /\ rooms[r].is_private
    /\ \/ /\ resp'.op = "join_private_room"
          /\ JoinPrivateRoom(s, typed)
          /\ Normalize(typed) # <<>>
          /\ rooms[r].password = Some(Normalize(typed))
       \/ /\ resp'.op = "room_detail"
          /\ RoomDetail(s, r, PromptForm(typed))
          /\ typed # <<>>
          /\ rooms[r].password = Some(typed)

\* C38: a grant appears only in a step in which its session submits a
\* non-empty code that is the stored code of its room, the room being
\* private; no other request adds a grant, and none takes one away.
C38_GrantOnlyByCodeSubmission ==
    [][/\ \A g \in grants' \ grants :
            \E typed \in TypedCodes : SubmitsCodeOf(g[1], g[2], typed)
       /\ grants \subseteq grants'
      ]_vars

\* u2 holds the grant of room 1 and has since sent a message there, after
\* u1 started the timer and a third room was created
C38_Witness ==
    /\ grants = {<<"s2", 1>>}
    /\ rooms[1].is_private
    /\ rooms[1].timer_is_running
    /\ Len(rooms) = 3
    /\ Len(msgs) = 1
    /\ presence[<<1, "u2">>] # <<>>
    /\ resp.op = "send_message"
    /\ resp.user = "u2"

----------------------------------------------------------------------------
(* Claim about the two queries of room_presence, checked under SpecPresence *)

\* C39: in every response of room_presence, active_count is the number
\* of entries of active_users.
C39_CountEqualsListLength ==
    resp.op = "room_presence" =>
        resp.body.active_count = Len(resp.body.active_users)

====
